---------------------------- MODULE Spec2Model ----------------------------
(***************************************************************************)
(* A model of the trajectory recorder of 나의대동여지도 (js/app.js,         *)
(* js/storage.js, js/utils.js): the debounced, quota-checked commit of the *)
(* routes to localStorage, load / import / clear with their backups, and   *)
(* the tracking session that accumulates the live route.                   *)
(*                                                                         *)
(* Units.  Time is counted in ticks of 100 ms (Date.now() minus a fixed    *)
(* epoch), so that 30 days fit TLC's integers.  Latitude and longitude are *)
(* integers in units of 0.5e-6 degree, so that a coordinate may lie        *)
(* half-way between two 6-decimal values.  Lengths (accuracy, distance) are *)
(* integers in decimetres.  The text of a JSON document is not spelled     *)
(* out: a blob is the document it parses to (or the fact that it does not  *)
(* parse), and JsonLength gives the length of its text.                    *)
(***************************************************************************)
EXTENDS Integers, Sequences, FiniteSets, TLC

VARIABLES
    now,            \* the host's time, in ticks: what its timers run by
    skew,           \* Date.now() - now: the adjustments made to the system clock
    localStorage,   \* [data, backup]: the items 'daedongMap_data' and 'daedongMap_data_backup'
    routes,         \* DaedongMapApp.routes
    stayAreas,      \* DaedongMapApp.stayAreas
    totalDistance,  \* DaedongMapApp.totalDistance
    currentRoute,   \* DaedongMapApp.currentRoute (NullRoute: null)
    lastPosition,   \* DaedongMapApp.lastPosition (NullPosition: null)
    watchId,        \* GPSTracker.watchId (0: null)
    isTracking,     \* GPSTracker.isTracking
    isPaused,       \* GPSTracker.isPaused
    lastValidLocation,   \* GPSTracker.lastValidLocation (NullLocation: null)
    locationUpdateCount, \* GPSTracker.locationUpdateCount
    inThrottle,     \* the `inThrottle` flag of the throttled GPSTracker.onLocationUpdate
    throttleDue,    \* when the throttle's setTimeout clears the flag (NoTime: not set)
    idSeq,          \* number of Utils.generateId() calls so far
    fixes,          \* history: positions the watch has delivered so far
    inFlight,       \* a position callback queued before clearWatch is still to run
    tally,          \* history: fixes processed and accepted since tracking last started or stopped
    ev,             \* history: the tracking handler that ran at this instant and what it did
    timeout,        \* the debounce closure's `timeout` handle (0: none yet)
    timers,         \* the host's pending setTimeout callbacks
    reqSeq,         \* number of saveToStorage calls so far (the identity of each argument object)
    bursts,         \* history: bursts of saveToStorage calls begun on this page
    writesDone,     \* history: _saveToStorage executions on this page
    lastReqAt,      \* history: time of the latest saveToStorage call on this page
    ops,            \* history: page loads, imports and clears so far
    last,           \* history: the operation that ran last, its inputs and its outcome
    lastSaveTime,   \* DaedongMapApp.lastSaveTime of the second app.js (NoTime: null)
    stats,          \* DaedongMapApp.cachedDistance and cacheUpdateTime, and the distance shown
    path,           \* the points given to _simplifyPath or to _serializeData (a route's points)
    pathTolerance,  \* the tolerance given to _simplifyPath
    frames,         \* the call stack of _simplifyPath: one frame for each call under way
    returned,       \* what the call of _simplifyPath that ended last returned (None: nothing yet)
    serialized      \* what _serializeData made of the route of `path` (None: nothing yet)

storeVars == <<localStorage>>
appVars == <<routes, stayAreas, totalDistance>>
sessionVars == <<currentRoute, lastPosition>>
gpsVars == <<watchId, isTracking, isPaused, lastValidLocation, locationUpdateCount,
             inThrottle, throttleDue>>
trackVars == <<currentRoute, lastPosition, watchId, isTracking, isPaused, lastValidLocation,
               locationUpdateCount, inThrottle, throttleDue, idSeq, fixes, skew, inFlight,
               tally, ev, lastSaveTime, stats, path, pathTolerance, frames, returned,
               serialized>>
timerVars == <<timeout, timers>>
histVars == <<reqSeq, bursts, writesDone, lastReqAt, ops, last>>
simplifierVars == <<path, pathTolerance, frames, returned, serialized>>
vars == <<now, localStorage, routes, stayAreas, totalDistance, currentRoute, lastPosition,
          watchId, isTracking, isPaused, lastValidLocation, locationUpdateCount,
          inThrottle, throttleDue, idSeq, fixes, skew, inFlight, tally, ev, timeout, timers,
          reqSeq, bursts, writesDone, lastReqAt, ops, last, lastSaveTime, stats, path,
          pathTolerance, frames, returned, serialized>>

----------------------------------------------------------------------------
\* Bounds of the model.

\* saveToStorage calls followed in one behaviour
MaxRequests == 2
\* page loads, imports and clears followed in one behaviour
MaxOps == 3
\* ticks of the clock followed after T0
MaxTicks == 15
\* the clock value at which the behaviours start (more than 30 days after the epoch)
T0 == 26000000
\* nested _saveToStorage frames the engine's call stack holds before RangeError
MaxCallStack == 3
\* length scale: the characters of JSON text one modelled point stands for
PointChars == 1048576

----------------------------------------------------------------------------
\* Program constants.

\* Utils.debounce(..., 1000): 1000 ms
wait == 10
\* this.maxStorageSize
maxStorageSize == 5 * 1024 * 1024
\* 30 * 24 * 60 * 60 * 1000 ms
ThirtyDays == 30 * 24 * 60 * 60 * 10
\* _simplifyPath(points, 0.00001): 0.00001 degree
tolerance == 20
\* points.length < 10
CompressMin == 10
\* the factor 1000000 of Math.round(x * 1000000) / 1000000: units per 1e-6 degree
CoordUnit == 2
\* Math.round(metres): units per metre
LengthUnit == 10
\* an absent time (endTime undefined or null)
NoTime == 0 - 1

\* Math.round(x / m) * m: to the nearest multiple of m, a tie towards +infinity
Round(x, m) == ((2 * x + m) \div (2 * m)) * m

RECURSIVE SumSeq(_)
SumSeq(s) == IF s = <<>> THEN 0 ELSE Head(s) + SumSeq(Tail(s))

----------------------------------------------------------------------------
\* Blobs: the strings localStorage holds and files give.

\* a document: routesItems is "other" when an element of the routes array has
\* no array of points ({} or a number, say), "routes" otherwise
NoDoc ==
    [top |-> "none", version |-> "", routesKind |-> "missing", routes |-> <<>>,
     routesItems |-> "routes",
     stayAreasKind |-> "missing", stayAreas |-> <<>>,
     totalDistanceKind |-> "missing", totalDistance |-> 0, lastSaved |-> 0]

\* getItem's null
NoItem == [kind |-> "absent", raw |-> 0, doc |-> NoDoc]
\* the empty string
EmptyText == [kind |-> "empty", raw |-> 0, doc |-> NoDoc]
\* a text JSON.parse rejects (truncated, malformed); n tells such texts apart
Garbage(n) == [kind |-> "garbage", raw |-> n, doc |-> NoDoc]
\* the text of a JSON document
JsonText(doc) == [kind |-> "json", raw |-> 0, doc |-> doc]

\* if (x) on a getItem result: null and "" are falsy
Truthy(blob) == blob.kind \notin {"absent", "empty"}

----------------------------------------------------------------------------
\* StorageManager: simplification and serialization.

\* _pointToLineDistance compares as the code's Math.sqrt(dx * dx + dy * dy) does,
\* but is kept exact: it gives the squared distance multiplied by LineScale of
\* the chord, which is the same positive factor for every point measured
\* against one chord.
LineScale(lineStart, lineEnd) ==
    LET C == lineEnd.lat - lineStart.lat
        D == lineEnd.lng - lineStart.lng
        lenSq == C * C + D * D
    IN  IF lenSq # 0 THEN lenSq ELSE 1

_pointToLineDistance(point, lineStart, lineEnd) ==
    LET A == point.lat - lineStart.lat
        B == point.lng - lineStart.lng
        C == lineEnd.lat - lineStart.lat
        D == lineEnd.lng - lineStart.lng
        dot == A * C + B * D
        lenSq == C * C + D * D
    IN  IF lenSq = 0 THEN A * A + B * B                      \* param = -1
        ELSE IF dot < 0 THEN (A * A + B * B) * lenSq         \* param < 0
        ELSE IF dot > lenSq THEN ((A - C) * (A - C) + (B - D) * (B - D)) * lenSq
        ELSE (A * D - B * C) * (A * D - B * C)               \* the foot of the perpendicular

\* the for loop of _simplifyPath measuring the first point after the start only
FarthestFirst(points, i) ==
    IF i < 2 THEN [maxDistance |-> 0, maxIndex |-> 1]
    ELSE LET distance == _pointToLineDistance(points[2], points[1], points[Len(points)])
         IN  IF distance > 0 THEN [maxDistance |-> distance, maxIndex |-> 2]
             ELSE [maxDistance |-> 0, maxIndex |-> 1]

\* the for loop of _simplifyPath: [maxDistance, maxIndex] after index i (1-based)
RECURSIVE FarthestUpTo(_, _)
FarthestUpTo(points, i) ==
    IF i < 2 THEN [maxDistance |-> 0, maxIndex |-> 1]
    ELSE LET prev == FarthestUpTo(points, i - 1)
             distance == _pointToLineDistance(points[i], points[1], points[Len(points)])
         IN  IF distance > prev.maxDistance
             THEN [maxDistance |-> distance, maxIndex |-> i]
             ELSE prev

RECURSIVE _simplifyPath(_, _)
_simplifyPath(points, tol) ==
    IF Len(points) <= 2 THEN points
    ELSE LET far == FarthestUpTo(points, Len(points) - 1)
             scale == LineScale(points[1], points[Len(points)])
         IN  IF far.maxDistance > tol * tol * scale
             THEN LET left == _simplifyPath(SubSeq(points, 1, far.maxIndex), tol)
                      right == _simplifyPath(SubSeq(points, far.maxIndex, Len(points)), tol)
                  IN  SubSeq(left, 1, Len(left) - 1) \o right
             ELSE <<points[1], points[Len(points)]>>

\* the p => ({...}) of _compressPoints
CompressPoint(p) ==
    [lat |-> Round(p.lat, CoordUnit), lng |-> Round(p.lng, CoordUnit),
     timestamp |-> p.timestamp, accuracy |-> Round(p.accuracy, LengthUnit)]

\* _compressPoints simplifying a path of any length
CompressAlways(points) ==
    LET simplified == _simplifyPath(points, tolerance)
    IN  [i \in 1..Len(simplified) |-> CompressPoint(simplified[i])]

_compressPoints(points) ==
    IF Len(points) < CompressMin
    THEN [i \in 1..Len(points) |-> CompressPoint(points[i])]
    ELSE LET simplified == _simplifyPath(points, tolerance)
         IN  [i \in 1..Len(simplified) |-> CompressPoint(simplified[i])]

\* the route => ({...}) of _serializeData
SerializeRoute(route) ==
    [id |-> route.id, points |-> _compressPoints(route.points),
     startTime |-> route.startTime, endTime |-> route.endTime,
     distance |-> Round(route.distance, LengthUnit)]

\* the area => ({...}) of _serializeData
SerializeArea(area) ==
    [lat |-> Round(area.lat, CoordUnit), lng |-> Round(area.lng, CoordUnit),
     startTime |-> area.startTime, endTime |-> area.endTime,
     duration |-> area.duration]

_serializeData(data, t) ==
    [top |-> "object", version |-> "2.1",
     routesKind |-> "array",
     routes |-> [i \in 1..Len(data.routes) |-> SerializeRoute(data.routes[i])],
     routesItems |-> "routes",
     stayAreasKind |-> "array",
     stayAreas |-> [i \in 1..Len(data.stayAreas) |-> SerializeArea(data.stayAreas[i])],
     totalDistanceKind |-> "number",
     totalDistance |-> Round(data.totalDistance, LengthUnit),
     lastSaved |-> t]

\* JSON.stringify(doc).length: the brackets and keys of the document, of each
\* route and of each area, and PointChars for each point
JsonLength(doc) ==
    90 + SumSeq([i \in 1..Len(doc.routes) |-> 80 + Len(doc.routes[i].points) * PointChars])
       + 100 * Len(doc.stayAreas)

\* _cleanupOldData filtering on the end of a route
KeptByEndTime(route, t) == route.endTime > t - ThirtyDays

\* _cleanupOldData: data.routes = data.routes.filter(...)
KeptByCleanup(route, t) == route.startTime > t - ThirtyDays

_cleanupOldData(data, t) ==
    [data EXCEPT !.routes = SelectSeq(data.routes, LAMBDA route : KeptByCleanup(route, t))]

----------------------------------------------------------------------------
\* StorageManager: commit, load, import, clear.  Each operator gives the
\* outcome of the whole method; `store` is localStorage afterwards.

\* what localStorage.setItem can do: succeed, or throw
SetItemFaults == {"none", "QuotaExceededError", "SecurityError"}

\* _saveToStorage(data), entered as frame number `depth` of the call stack.  The
\* retry `return this._saveToStorage(data)` is a nested call: when the stack
\* has no room for it the engine throws RangeError, which the catch clause of
\* the frame turns into `return false`.
RECURSIVE _saveToStorage(_, _, _, _, _)
_saveToStorage(store, data, t, depth, fault) ==
    LET serializedData == _serializeData(data, t)
        dataStr == JsonText(serializedData)
        failed(name) ==
            [ok |-> FALSE, store |-> store, attempts |-> depth, evictions |-> depth - 1,
             error |-> name, notified |-> name = "QuotaExceededError"]
    IN  IF JsonLength(serializedData) > maxStorageSize
        THEN IF depth >= MaxCallStack
             THEN [failed("RangeError") EXCEPT !.evictions = depth]
             ELSE _saveToStorage(store, _cleanupOldData(data, t), t, depth + 1, fault)
        ELSE IF fault # "none"
             THEN failed(fault)
             ELSE [ok |-> TRUE, store |-> [store EXCEPT !.data = dataStr],
                   attempts |-> depth, evictions |-> depth - 1,
                   error |-> "none", notified |-> FALSE]

\* _backupCorruptedData without its removeItem
BackupCorruptedKeepsItem(store, fault) ==
    IF Truthy(store.data) /\ fault = "none" THEN [store EXCEPT !.backup = store.data] ELSE store

\* _backupCorruptedData: the catch clause swallows a failed setItem
_backupCorruptedData(store, fault) ==
    LET corrupted == store.data
    IN  IF Truthy(corrupted) /\ fault = "none"
        THEN [data |-> NoItem, backup |-> corrupted]
        ELSE store

\* _backupCurrentData: the catch clause swallows a failed setItem
_backupCurrentData(store, fault) ==
    LET current == store.data
    IN  IF Truthy(current) /\ fault = "none"
        THEN [store EXCEPT !.backup = current]
        ELSE store

\* what loadFromStorage returns: null, or the deserialized snapshot
NullData == [isNull |-> TRUE, routes |-> <<>>, stayAreas |-> <<>>, totalDistance |-> 0]

\* the route => ({...route, ...}) of loadFromStorage
LoadRoute(route) == route

\* the area => ({...area, ..., marker: null}) of loadFromStorage: no `drawn`
\* property is stored, so the loaded area has none (falsy)
LoadArea(area) ==
    [lat |-> area.lat, lng |-> area.lng, startTime |-> area.startTime,
     endTime |-> area.endTime, duration |-> area.duration, drawn |-> FALSE]

\* the statements of loadFromStorage's try block throw: JSON.parse on a text
\* that is no JSON, data.version on null, .map on a value that is no array,
\* route.points.map on a route without points
LoadThrows(savedData) ==
    \/ savedData.kind = "garbage"
    \/ savedData.doc.top = "null"
    \/ savedData.doc.routesKind = "other"
    \/ savedData.doc.routesKind = "array" /\ savedData.doc.routesItems = "other"
    \/ savedData.doc.stayAreasKind = "other"

Deserialize(doc) ==
    [isNull |-> FALSE,
     routes |-> IF doc.routesKind = "array"
                THEN [i \in 1..Len(doc.routes) |-> LoadRoute(doc.routes[i])] ELSE <<>>,
     stayAreas |-> IF doc.stayAreasKind = "array"
                   THEN [i \in 1..Len(doc.stayAreas) |-> LoadArea(doc.stayAreas[i])] ELSE <<>>,
     totalDistance |-> IF doc.totalDistanceKind = "missing" THEN 0 ELSE doc.totalDistance]

loadFromStorage(store, fault) ==
    LET savedData == store.data
    IN  IF ~Truthy(savedData) THEN [result |-> NullData, store |-> store]
        ELSE IF LoadThrows(savedData)
             THEN [result |-> NullData, store |-> _backupCorruptedData(store, fault)]
             ELSE [result |-> Deserialize(savedData.doc), store |-> store]

\* _validateImportData without Array.isArray(data.routes)
ValidateWithoutRoutes(data) ==
    /\ data.top = "object"
    /\ data.version # ""
    /\ data.stayAreasKind = "array"
    /\ data.totalDistanceKind = "number"

_validateImportData(data) ==
    /\ data.top = "object"
    /\ data.version # ""
    /\ data.routesKind = "array"
    /\ data.stayAreasKind = "array"
    /\ data.totalDistanceKind = "number"

\* importData(file), from the moment file.text() has given `text`
importData(store, text, backupFault, fault) ==
    IF text.kind # "json" \/ ~_validateImportData(text.doc)
    THEN [ok |-> FALSE, store |-> store]
    ELSE LET backedUp == _backupCurrentData(store, backupFault)
         IN  IF fault # "none"
             THEN [ok |-> FALSE, store |-> backedUp]
             ELSE [ok |-> TRUE, store |-> [backedUp EXCEPT !.data = text]]

clearStoredData(store, backupFault) ==
    LET backedUp == _backupCurrentData(store, backupFault)
    IN  [ok |-> TRUE, store |-> [backedUp EXCEPT !.data = NoItem]]

\* exportData that evicts the old routes of its argument as a commit does
ExportEvicting(store, data, t, fault) ==
    [ok |-> fault = "none", document |-> _serializeData(_cleanupOldData(data, t), t),
     exportTime |-> t, store |-> store, data |-> _cleanupOldData(data, t)]

\* exportData(data): the document handed to the download link, and the store
\* and the argument as the call leaves them (it calls no setItem, and
\* _serializeData builds new objects with map); an exception of the Blob or
\* the link is caught and false returned
exportData(store, data, t, fault) ==
    [ok |-> fault = "none", document |-> _serializeData(data, t), exportTime |-> t,
     store |-> store, data |-> data]

\* 'daedongMap_data'.length and 'daedongMap_data_backup'.length
KeyLength == 15
BackupKeyLength == 22

\* localStorage[key].length
ItemLength(blob) ==
    CASE blob.kind = "json" -> JsonLength(blob.doc)
      [] blob.kind = "garbage" -> blob.raw
      [] OTHER -> 0

\* Utils.getStorageSize: the lengths of the keys present and of their items
getStorageSize(store) ==
    (IF store.data.kind # "absent" THEN ItemLength(store.data) + KeyLength ELSE 0)
        + (IF store.backup.kind # "absent" THEN ItemLength(store.backup) + BackupKeyLength ELSE 0)

\* getStorageStatus; percentage in tenths of a percent, as toFixed(1) rounds it
getStorageStatus(store) ==
    LET used == getStorageSize(store)
    IN  [used |-> used, total |-> maxStorageSize,
         percentage |-> (used * 125 + 327680) \div 655360,
         available |-> maxStorageSize - used, store |-> store]

----------------------------------------------------------------------------
\* Utils.

\* floor of the square root, by bisection between lo and hi
RECURSIVE SqrtBetween(_, _, _)
SqrtBetween(n, lo, hi) ==
    IF hi - lo <= 1 THEN lo
    ELSE LET mid == (lo + hi) \div 2
         IN  IF mid * mid <= n THEN SqrtBetween(n, mid, hi) ELSE SqrtBetween(n, lo, mid)

Isqrt(n) == SqrtBetween(n, 0, 46341)

\* Utils.calculateDistance, in decimetres.  At the scale of a walk the
\* haversine formula is R * sqrt(dLat^2 + cos(lat1) * cos(lat2) * dLng^2): one
\* unit of latitude is 0.556 dm and, at the latitude of Seoul, one unit of
\* longitude 0.441 dm.  The result is cut to whole decimetres.
calculateDistance(lat1, lng1, lat2, lng2) ==
    LET north == ((lat2 - lat1) * 556) \div 1000
        east == ((lng2 - lng1) * 441) \div 1000
    IN  Isqrt(north * north + east * east)

\* Utils.debounce(func, wait): clearTimeout and the function it returns.  A
\* pending callback is [id, due, args]; the handle of a timer is the number of
\* the call that set it.
clearTimeout(pending, handle) == {x \in pending : x.id # handle}

\* executedFunction without its clearTimeout(timeout)
ExecutedFunctionKeepsTimer(pending, handle, args, t) ==
    [timeout |-> args.req,
     timers |-> pending \cup {[id |-> args.req, due |-> t + wait, args |-> args]}]

executedFunction(pending, handle, args, t) ==
    [timeout |-> args.req,
     timers |-> clearTimeout(pending, handle)
                    \cup {[id |-> args.req, due |-> t + wait, args |-> args]}]

\* the callback `later`, run by the host for the pending timer x: the host
\* drops x, clearTimeout(timeout) drops the timer the handle names
later(pending, handle, x) == clearTimeout(pending \ {x}, handle)

----------------------------------------------------------------------------
\* Sample data: routes and stay areas as a tracking session leaves them.

BaseLat == 37566500 * CoordUnit
BaseLng == 126978000 * CoordUnit

Pt(dlat, dlng, t, accuracy) ==
    [lat |-> BaseLat + dlat, lng |-> BaseLng + dlng, timestamp |-> t, accuracy |-> accuracy]

\* the distance onLocationUpdate has accumulated over `points`
RECURSIVE PathLength(_)
PathLength(points) ==
    IF Len(points) < 2 THEN 0
    ELSE calculateDistance(points[1].lat, points[1].lng, points[2].lat, points[2].lng)
            + PathLength(Tail(points))

MakeRoute(id, points, startTime) ==
    [id |-> id, points |-> points, startTime |-> startTime,
     endTime |-> points[Len(points)].timestamp + 1, distance |-> PathLength(points)]

\* three points some tens of metres apart
ShortRoute(id, startTime) ==
    MakeRoute(id, <<Pt(0, 0, startTime + 20, 105), Pt(301, 207, startTime + 40, 98),
                    Pt(640, 411, startTime + 60, 52)>>, startTime)

\* ten points a little over half a metre apart: a straight line with one
\* corner (the fifth point) and one point (the eighth) within the tolerance
LongPoints(startTime) ==
    [i \in 1..10 |->
        Pt((i - 1) * 10, IF i = 5 THEN 31 ELSE IF i = 8 THEN 7 ELSE 0, startTime + 20 * i, 80)]

LongRoute(id, startTime) == MakeRoute(id, LongPoints(startTime), startTime)

\* this.STAY_THRESHOLD: 3600000 ms
STAY_THRESHOLD == 36000

Area(dlat, dlng, startTime, endTime) ==
    [lat |-> BaseLat + dlat, lng |-> BaseLng + dlng, startTime |-> startTime,
     endTime |-> endTime, duration |-> endTime - startTime,
     drawn |-> endTime - startTime >= STAY_THRESHOLD]

\* start times: older than 30 days at T0, exactly 30 days old at T0 + 15, recent
OldStart == T0 - ThirtyDays - 1000
EdgeStart == T0 - ThirtyDays + 15
RecentStart == T0 - 50000

AppData(rs, as) ==
    [routes |-> rs, stayAreas |-> as,
     totalDistance |-> SumSeq([i \in 1..Len(rs) |-> rs[i].distance])]

PromotedArea == Area(301, 207, RecentStart, RecentStart + STAY_THRESHOLD + 40)
PlainArea == Area(641, 411, RecentStart + 40000, RecentStart + 40500)

\* the application data the storage behaviours start from
AppStates ==
    { AppData(<<ShortRoute(101, RecentStart)>>, <<PromotedArea>>),
      AppData(<<LongRoute(101, RecentStart)>>, <<PlainArea>>),
      AppData(<<ShortRoute(101, EdgeStart), ShortRoute(102, RecentStart)>>, <<PlainArea>>),
      AppData(<<ShortRoute(100, OldStart),
                MakeRoute(102, <<Pt(0, 0, RecentStart + 20, 60), Pt(301, 207, RecentStart + 40, 60)>>,
                          RecentStart),
                MakeRoute(103, <<Pt(301, 207, RecentStart + 1020, 60),
                                 Pt(640, 411, RecentStart + 1040, 60)>>, RecentStart + 1000)>>,
              <<PlainArea>>) }

\* documents a file or an older page may hold
SavedDoc == _serializeData(AppData(<<ShortRoute(100, OldStart)>>, <<PromotedArea>>), T0 - 100)
FieldlessDoc == [NoDoc EXCEPT !.top = "object"]
NullDoc == [NoDoc EXCEPT !.top = "null"]
OldVersionDoc == [SavedDoc EXCEPT !.version = "1.0"]
NoVersionDoc == [SavedDoc EXCEPT !.version = ""]
NoRoutesDoc == [SavedDoc EXCEPT !.routesKind = "missing", !.routes = <<>>]
NoAreasDoc == [SavedDoc EXCEPT !.stayAreasKind = "missing", !.stayAreas = <<>>]
NoTotalDoc == [SavedDoc EXCEPT !.totalDistanceKind = "missing", !.totalDistance = 0]
RoutesNotArrayDoc == [SavedDoc EXCEPT !.routesKind = "other", !.routes = <<>>]
AreasNotArrayDoc == [SavedDoc EXCEPT !.stayAreasKind = "other", !.stayAreas = <<>>]
TotalNotNumberDoc == [SavedDoc EXCEPT !.totalDistanceKind = "other"]
\* {"version":"2.1","routes":[{}],...}: the routes are an array of one object
\* that is no route
PointlessRouteDoc == [SavedDoc EXCEPT !.routes = <<>>, !.routesItems = "other"]
\* a valid document of two routes, six points: longer than maxStorageSize
BigDoc ==
    _serializeData(AppData(<<ShortRoute(100, OldStart), ShortRoute(101, RecentStart)>>,
                           <<PromotedArea>>), T0 - 100)

\* what the primary item holds when the behaviours start
InitialItems ==
    { NoItem, EmptyText, Garbage(1), JsonText(SavedDoc), JsonText(NoTotalDoc),
      JsonText(FieldlessDoc) }

\* what the backup item holds when the behaviours start
InitialBackups == { NoItem, Garbage(2) }

\* the texts importData is given
ImportTexts ==
    { Garbage(3), JsonText(OldVersionDoc), JsonText(NoVersionDoc),
      JsonText(RoutesNotArrayDoc), JsonText(TotalNotNumberDoc), JsonText(BigDoc),
      JsonText(PointlessRouteDoc) }

----------------------------------------------------------------------------
\* The storage behaviours: commits through the debounce, page loads, imports
\* and clears, on a page whose application data is one of AppStates.

NoStore == [data |-> NoItem, backup |-> NoItem]

\* null, where the code holds a route, a position or a location
NullRoute ==
    [id |-> 0, points |-> <<>>, startTime |-> NoTime, endTime |-> NoTime, distance |-> 0]
NullPosition == [isNull |-> TRUE, lat |-> 0, lng |-> 0]
NullLocation ==
    [isNull |-> TRUE, lat |-> 0, lng |-> 0, accuracy |-> 0, timestamp |-> NoTime,
     isTracking |-> FALSE]

\* no fix processed yet; no handler has run at this instant
NoTally == [processed |-> 0, accepted |-> 0]
NoEvent ==
    [op |-> "none", ok |-> TRUE, reason |-> "", accuracy |-> 0, prior |-> FALSE,
     elapsed |-> 0, distance |-> 0, code |-> 0, notices |-> 0, draws |-> 0,
     processed |-> 0, accepted |-> 0]

\* what a call that has not returned yet has returned
NoResult == [isNull |-> TRUE, points |-> <<>>]

\* no call of _simplifyPath or _serializeData is followed
SimplifierIdle ==
    /\ path = <<>>
    /\ pathTolerance = 0
    /\ frames = <<>>
    /\ returned = NoResult
    /\ serialized = NullRoute

\* this.cachedDistance = null
NoDistance == 0 - 1
\* the cache of updateStats is used for less than 1000 ms, in ticks
CacheFor == 10
\* the cache of a new DaedongMapApp, nothing shown yet
NoStats == [cachedDistance |-> NoDistance, cacheUpdateTime |-> 0, shown |-> NoDistance]

\* currentRoute ? currentRoute.distance : 0
LiveDistance(route) == IF route = NullRoute THEN 0 ELSE route.distance

\* the distance of updateStats when it does not use the cache
DistanceShown(total, route) == total + LiveDistance(route)

\* DaedongMapApp.updateStats at Date.now() = t: the cache afterwards and the
\* distance given to ui.updateStats
updateStats(st, total, route, t) ==
    IF st.cachedDistance # NoDistance /\ t - st.cacheUpdateTime < CacheFor
    THEN [st EXCEPT !.shown = st.cachedDistance]
    ELSE LET distance == DistanceShown(total, route)
         IN  [cachedDistance |-> distance, cacheUpdateTime |-> t, shown |-> distance]

\* the fields of a new DaedongMapApp and a new GPSTracker that hold no stored
\* data, init() having shown the statistics
NewPage ==
    /\ currentRoute = NullRoute
    /\ lastPosition = NullPosition
    /\ watchId = 0
    /\ isTracking = FALSE
    /\ isPaused = FALSE
    /\ lastValidLocation = NullLocation
    /\ locationUpdateCount = 0
    /\ inThrottle = FALSE
    /\ throttleDue = NoTime
    /\ inFlight = FALSE
    /\ tally = NoTally
    /\ ev = NoEvent
    /\ lastSaveTime = NoTime
    /\ stats = updateStats(NoStats, totalDistance, NullRoute, now)

\* location.reload(): the page's objects are constructed anew
Reload ==
    /\ currentRoute' = NullRoute
    /\ lastPosition' = NullPosition
    /\ watchId' = 0
    /\ isTracking' = FALSE
    /\ isPaused' = FALSE
    /\ lastValidLocation' = NullLocation
    /\ locationUpdateCount' = 0
    /\ inThrottle' = FALSE
    /\ throttleDue' = NoTime
    /\ inFlight' = FALSE
    /\ tally' = NoTally
    /\ ev' = NoEvent
    /\ lastSaveTime' = NoTime
NoData == [routes |-> <<>>, stayAreas |-> <<>>, totalDistance |-> 0]

\* the record of an operation: what ran, on what, and how it ended; and the
\* corrupt blob that a load has moved to the backup item (NoItem: none so far)
NoLast ==
    [op |-> "none", ok |-> TRUE, at |-> 0, pre |-> NoStore, req |-> 0, latest |-> 0,
     attempts |-> 0, evictions |-> 0, error |-> "none", notified |-> FALSE,
     backupFault |-> "none", text |-> NoItem, data |-> NoData, result |-> NullData,
     used |-> 0, quarantined |-> NoItem]

Op(name) ==
    [NoLast EXCEPT !.op = name, !.at = now, !.pre = localStorage, !.latest = reqSeq,
                   !.quarantined = last.quarantined]

\* Date.now() and new Date()
DateNow == now + skew

\* The host runs a timer's callback when it is due, before it delivers any
\* later event: no other step is taken while a callback is due.
TimerDue == \E x \in timers : x.due <= now

Init ==
    /\ now = T0
    /\ localStorage \in [data : InitialItems, backup : InitialBackups]
    /\ \E app \in AppStates :
          /\ routes = app.routes
          /\ stayAreas = app.stayAreas
          /\ totalDistance = app.totalDistance
    /\ NewPage
    /\ skew = 0
    /\ idSeq = 0
    /\ fixes = 0
    /\ timeout = 0
    /\ timers = {}
    /\ reqSeq = 0
    /\ bursts = 0
    /\ writesDone = 0
    /\ lastReqAt = NoTime
    /\ ops = 0
    /\ last = NoLast
    /\ SimplifierIdle

\* DaedongMapApp.saveData: this.storage.saveToStorage({routes, stayAreas, totalDistance})
SaveData ==
    /\ ~TimerDue
    /\ reqSeq < MaxRequests
    /\ LET args == [req |-> reqSeq + 1,
                    data |-> [routes |-> routes, stayAreas |-> stayAreas,
                              totalDistance |-> totalDistance],
                    asked |-> [routes |-> routes, stayAreas |-> stayAreas,
                               totalDistance |-> totalDistance]]
           set == executedFunction(timers, timeout, args, now)
       IN  /\ timeout' = set.timeout
           /\ timers' = set.timers
           /\ reqSeq' = reqSeq + 1
           /\ bursts' = IF lastReqAt = NoTime \/ now - lastReqAt >= wait
                        THEN bursts + 1 ELSE bursts
           /\ lastReqAt' = now
           /\ last' = [Op("request") EXCEPT !.req = reqSeq + 1, !.latest = reqSeq + 1,
                                            !.data = args.data]
    /\ UNCHANGED <<now, localStorage, routes, stayAreas, totalDistance, writesDone, ops>>
    /\ UNCHANGED trackVars

\* the eviction of a commit reaching the array the application holds
RoutesEvictedInPlace(appRoutes, kept, evictions) == IF evictions > 0 THEN kept ELSE appRoutes

\* this.routes after _saveToStorage(data) has run on the object saveData made,
\* {routes: this.routes, ...}: _cleanupOldData assigns the array that filter
\* gives to data.routes, a property of that object, and _serializeData,
\* _compressPoints and _simplifyPath build theirs with map, slice and concat
RoutesAfterCommit(appRoutes, kept, evictions) == appRoutes

\* a debounce timer comes due: later() runs _saveToStorage(...args)
TimerFire ==
    \E x \in timers, fault \in SetItemFaults :
        /\ x.due <= now
        /\ LET out == _saveToStorage(localStorage, x.args.data, DateNow, 1, fault)
           IN  /\ localStorage' = out.store
               /\ last' = [Op("commit") EXCEPT !.ok = out.ok, !.req = x.args.req,
                                               !.data = x.args.data,
                                               !.attempts = out.attempts,
                                               !.evictions = out.evictions,
                                               !.error = out.error,
                                               !.notified = out.notified]
               /\ routes' = RoutesAfterCommit(routes,
                                              _cleanupOldData(x.args.data, DateNow).routes,
                                              out.evictions)
        /\ timers' = later(timers, timeout, x)
        /\ writesDone' = writesDone + 1
        /\ UNCHANGED <<now, stayAreas, totalDistance, timeout, reqSeq, bursts,
                       lastReqAt, ops>>
        /\ UNCHANGED trackVars

\* time passes, up to the moment the next timer is due
Advance ==
    \E d \in {5} \cup {x.due - now : x \in timers} :
        /\ ~TimerDue
        /\ d > 0
        /\ now + d <= T0 + MaxTicks
        /\ \A x \in timers : now + d <= x.due
        /\ now' = now + d
        /\ UNCHANGED <<localStorage, routes, stayAreas, totalDistance, timeout, timers,
                       reqSeq, bursts, writesDone, lastReqAt, ops, last>>
        /\ UNCHANGED trackVars

\* the page is (re)loaded: a new DaedongMapApp with a new debounce closure,
\* then init() -> loadSavedData() -> loadFromStorage()
LoadSavedData ==
    \E fault \in {"none", "QuotaExceededError"} :
        /\ ~TimerDue
        /\ ops < MaxOps
        /\ ops' = ops + 1
        /\ LET out == loadFromStorage(localStorage, fault)
               savedData == out.result
           IN  /\ localStorage' = out.store
               /\ routes' = IF savedData.isNull THEN <<>> ELSE savedData.routes
               /\ stayAreas' = IF savedData.isNull THEN <<>> ELSE savedData.stayAreas
               /\ totalDistance' = IF savedData.isNull THEN 0 ELSE savedData.totalDistance
               /\ last' = [Op("load") EXCEPT !.result = savedData,
                                             !.quarantined =
                                                 IF out.store # localStorage
                                                 THEN localStorage.data ELSE @,
                                             !.backupFault =
                                                 IF Truthy(localStorage.data)
                                                    /\ LoadThrows(localStorage.data)
                                                 THEN fault ELSE "none"]
        /\ timeout' = 0
        /\ timers' = {}
        /\ bursts' = 0
        /\ writesDone' = 0
        /\ lastReqAt' = NoTime
        /\ Reload
        /\ stats' = updateStats(NoStats, totalDistance', NullRoute, DateNow)
        /\ UNCHANGED <<now, skew, reqSeq, idSeq, fixes>>
        /\ UNCHANGED simplifierVars

\* the fault of a setItem call, if the import of `text` comes to make the call
Consulted(text, fault) ==
    IF text.kind = "json" /\ _validateImportData(text.doc) THEN fault ELSE "none"

\* StorageManager.importData(file), the file holding one of `texts`
Import(texts) ==
    \E text \in texts, backupFault \in {"none", "QuotaExceededError"},
       fault \in {"none", "QuotaExceededError"} :
        /\ ~TimerDue
        /\ ops < MaxOps
        /\ ops' = ops + 1
        /\ LET out == importData(localStorage, text, backupFault, fault)
           IN  /\ localStorage' = out.store
               /\ last' = [Op("import") EXCEPT !.ok = out.ok, !.text = text,
                                               !.backupFault = Consulted(text, backupFault),
                                               !.error = Consulted(text, fault)]
        /\ UNCHANGED <<now, routes, stayAreas, totalDistance, timeout, timers,
                       reqSeq, bursts, writesDone, lastReqAt>>
        /\ UNCHANGED trackVars

\* DaedongMapApp.clearStoredData, confirmed: storage.clearStoredData(), then
\* location.reload() (the new page finds no item to load)
ClearStoredData ==
    \E backupFault \in {"none", "QuotaExceededError"} :
        /\ ~TimerDue
        /\ ops < MaxOps
        /\ ops' = ops + 1
        /\ LET out == clearStoredData(localStorage, backupFault)
           IN  /\ localStorage' = out.store
               /\ last' = [Op("clear") EXCEPT !.ok = out.ok, !.backupFault = backupFault]
        /\ routes' = <<>>
        /\ stayAreas' = <<>>
        /\ totalDistance' = 0
        /\ timeout' = 0
        /\ timers' = {}
        /\ bursts' = 0
        /\ writesDone' = 0
        /\ lastReqAt' = NoTime
        /\ Reload
        /\ stats' = updateStats(NoStats, totalDistance', NullRoute, DateNow)
        /\ UNCHANGED <<now, skew, reqSeq, idSeq, fixes>>
        /\ UNCHANGED simplifierVars

\* DaedongMapApp.clearAllRoutes, confirmed; the second app.js also sets
\* this.currentRoute = null (keepsLive FALSE); at most max operations
ClearAll(keepsLive, max) ==
    \E backupFault \in {"none", "QuotaExceededError"} :
        /\ ~TimerDue
        /\ ops < max
        /\ ops' = ops + 1
        /\ routes' = <<>>
        /\ stayAreas' = <<>>
        /\ totalDistance' = 0
        /\ currentRoute' = IF keepsLive THEN currentRoute ELSE NullRoute
        /\ LET out == clearStoredData(localStorage, backupFault)
           IN  /\ localStorage' = out.store
               /\ last' = [Op("clear") EXCEPT !.ok = out.ok, !.backupFault = backupFault]
        /\ UNCHANGED <<now, timeout, timers, reqSeq, bursts, writesDone, lastReqAt>>
        /\ UNCHANGED <<lastPosition, watchId, isTracking, isPaused, lastValidLocation,
                       locationUpdateCount, inThrottle, throttleDue, idSeq, fixes, skew,
                       inFlight, tally, ev, lastSaveTime>>
        /\ stats' = updateStats([stats EXCEPT !.cachedDistance = NoDistance], 0,
                                currentRoute', DateNow)
        /\ UNCHANGED simplifierVars

ClearAllRoutes == ClearAll(TRUE, MaxOps)

\* DaedongMapApp.exportData: storage.exportData({routes, stayAreas, totalDistance})
ExportData ==
    \E fault \in {"none", "TypeError"} :
        /\ ~TimerDue
        /\ ops < MaxOps
        /\ ops' = ops + 1
        /\ LET data == [routes |-> routes, stayAreas |-> stayAreas,
                        totalDistance |-> totalDistance]
               out == exportData(localStorage, data, DateNow, fault)
           IN  /\ localStorage' = out.store
               /\ routes' = out.data.routes
               /\ stayAreas' = out.data.stayAreas
               /\ totalDistance' = out.data.totalDistance
               /\ last' = [Op("export") EXCEPT !.ok = out.ok, !.data = data]
        /\ UNCHANGED <<now, timeout, timers, reqSeq, bursts, writesDone, lastReqAt>>
        /\ UNCHANGED trackVars

\* the statistics panel reads storage.getStorageStatus()
GetStorageStatus ==
    /\ ~TimerDue
    /\ ops < MaxOps
    /\ ops' = ops + 1
    /\ LET out == getStorageStatus(localStorage)
       IN  /\ localStorage' = out.store
           /\ last' = [Op("status") EXCEPT !.used = out.used]
    /\ UNCHANGED <<now, routes, stayAreas, totalDistance, timeout, timers, reqSeq, bursts,
                   writesDone, lastReqAt>>
    /\ UNCHANGED trackVars

\* commits, page loads and clears
Next ==
    \/ SaveData
    \/ TimerFire
    \/ Advance
    \/ LoadSavedData
    \/ ClearStoredData
    \/ ClearAllRoutes

Spec == Init /\ [][Next]_vars

ImportData == Import(ImportTexts)

\* imports, page loads, clears, exports and status reads
NextImport ==
    \/ ImportData
    \/ LoadSavedData
    \/ ClearStoredData
    \/ ClearAllRoutes
    \/ ExportData
    \/ GetStorageStatus

SpecImport == Init /\ [][NextImport]_vars

\* the files imported between commits: a valid document, and a valid document
\* longer than maxStorageSize
StoreTexts == { JsonText(OldVersionDoc), JsonText(BigDoc) }

ImportFile == Import(StoreTexts)

\* commits, page loads, clears and imports
NextStore ==
    \/ SaveData
    \/ TimerFire
    \/ Advance
    \/ LoadSavedData
    \/ ClearStoredData
    \/ ClearAllRoutes
    \/ ImportFile

SpecStore == Init /\ [][NextStore]_vars

----------------------------------------------------------------------------
\* Tracking: GPSTracker and the DaedongMapApp handlers it calls back.

\* bounds of the tracking behaviours
MaxFixes == 3
MaxSessions == 1
MaxTrackTicks == 60

\* Utils.throttle(this._onLocationUpdate.bind(this), 2000), in ticks
limit == 20
\* this.STAY_RADIUS: 50 m, in decimetres
STAY_RADIUS == 500
\* the speed gate of _onLocationUpdate: 55.6 m/s, in tenths of a metre per second
SpeedLimit == 556
\* the fix from which the accuracy gate is strict
StrictFrom == 5
\* the accuracy gate of _onLocationUpdate at the start of a session and later, in metres
LooseAccuracy == 200
StrictAccuracy == 100
\* GeolocationPositionError.PERMISSION_DENIED
PERMISSION_DENIED == 1

\* what the watch delivers: position.coords of a walk northwards and a fix
\* too far away to be believed
Coords(dlat, accuracy) == [lat |-> BaseLat + dlat, lng |-> BaseLng, accuracy |-> accuracy]
Positions == { Coords(0, 100), Coords(540, 80), Coords(36000, 100) }

ThrottleTimerDue == throttleDue # NoTime /\ throttleDue <= now
Busy == TimerDue \/ ThrottleTimerDue

\* the second app.js saves from onLocationUpdate when more than 5000 ms have
\* passed since it last did
SaveEvery == 50

\* The argument object of saveData holds this.routes and this.stayAreas
\* themselves, and totalDistance by value: what a handler pushes to the arrays,
\* or sets in their elements, is in the argument of a call still pending.
Shared(pending, rs, as) ==
    { [x EXCEPT !.args.data.routes = rs, !.args.data.stayAreas = as] : x \in pending }

\* DaedongMapApp.saveData() called from a handler at time `now`; `asked` is
\* history: the data as they are at the call
SaveRequest(rs, as, total) ==
    LET args == [req |-> reqSeq + 1,
                 data |-> [routes |-> rs, stayAreas |-> as, totalDistance |-> total],
                 asked |-> [routes |-> rs, stayAreas |-> as, totalDistance |-> total]]
        set == executedFunction(timers, timeout, args, now)
    IN  /\ timeout' = set.timeout
        /\ timers' = set.timers
        /\ reqSeq' = reqSeq + 1
        /\ bursts' = IF lastReqAt = NoTime \/ now - lastReqAt >= wait
                     THEN bursts + 1 ELSE bursts
        /\ lastReqAt' = now

\* the loop of checkStayArea, were it to run from the oldest area to the newest
RECURSIVE OldestArea(_, _, _, _)
OldestArea(areas, i, lat, lng) ==
    IF i = 0 THEN 0
    ELSE LET older == OldestArea(areas, i - 1, lat, lng)
         IN  IF older > 0 THEN older
             ELSE IF calculateDistance(areas[i].lat, areas[i].lng, lat, lng) <= STAY_RADIUS
                  THEN i ELSE 0

\* the loop of checkStayArea, were it to look at the newest area only
NewestAreaOnly(areas, i, lat, lng) ==
    IF i > 0 /\ calculateDistance(areas[i].lat, areas[i].lng, lat, lng) <= STAY_RADIUS
    THEN i ELSE 0

\* the loop of checkStayArea: the index of the newest of areas[1..i] within
\* STAY_RADIUS of the position, 0 when there is none
RECURSIVE NearestArea(_, _, _, _)
NearestArea(areas, i, lat, lng) ==
    IF i = 0 THEN 0
    ELSE IF calculateDistance(areas[i].lat, areas[i].lng, lat, lng) <= STAY_RADIUS THEN i
    ELSE NearestArea(areas, i - 1, lat, lng)

\* checkStayArea: the area it has extended to `timestamp` is drawn now
Draws(area, timestamp) == timestamp - area.startTime >= STAY_THRESHOLD /\ ~area.drawn

\* DaedongMapApp.checkStayArea: the most recent area within STAY_RADIUS is
\* extended (and drawn once it has lasted STAY_THRESHOLD), else a new one added
checkStayArea(areas, lat, lng, timestamp) ==
    LET i == NearestArea(areas, Len(areas), lat, lng)
    IN  IF i > 0
        THEN [areas EXCEPT ![i] =
                 [@ EXCEPT !.endTime = timestamp,
                           !.duration = timestamp - areas[i].startTime,
                           !.drawn = @ \/ Draws(areas[i], timestamp)]]
        ELSE Append(areas, [lat |-> lat, lng |-> lng, startTime |-> timestamp,
                            endTime |-> timestamp, duration |-> 0, drawn |-> FALSE])

\* the calls of map.drawStayArea that checkStayArea makes
DrawCalls(areas, lat, lng, timestamp) ==
    LET i == NearestArea(areas, Len(areas), lat, lng)
    IN  IF i > 0 /\ Draws(areas[i], timestamp) THEN 1 ELSE 0

\* the accuracy gate, were the fifth fix still let through at 200 m
AccuracyThresholdLate(count) ==
    IF count <= StrictFrom THEN LooseAccuracy * LengthUnit ELSE StrictAccuracy * LengthUnit

\* the accuracy gate of _onLocationUpdate, `count` being the incremented counter
accuracyThreshold(count) ==
    IF count < StrictFrom THEN LooseAccuracy * LengthUnit ELSE StrictAccuracy * LengthUnit

\* the speed gate: distance / timeDiff > 55.6, a division by zero giving
\* Infinity (or NaN for no distance) and a negative timeDiff a negative speed
TooFast(loc, coords, t) ==
    LET distance == calculateDistance(loc.lat, loc.lng, coords.lat, coords.lng)
        timeDiff == t - loc.timestamp
    IN  IF timeDiff > 0 THEN distance * LengthUnit > SpeedLimit * timeDiff
        ELSE timeDiff = 0 /\ distance > 0

\* onLocationUpdate counting a leg of 30 m for the first point of a session
DistanceFromOrigin(position, data) ==
    IF position.isNull THEN calculateDistance(data.lat - 540, data.lng, data.lat, data.lng)
    ELSE calculateDistance(position.lat, position.lng, data.lat, data.lng)

\* the distance DaedongMapApp.onLocationUpdate adds for the point `data`
DistanceFrom(position, data) ==
    IF position.isNull THEN 0
    ELSE calculateDistance(position.lat, position.lng, data.lat, data.lng)

\* onLocationUpdate recording whatever it is given
RecordsAlways(data, route) == TRUE

\* onLocationUpdate recording while the session is paused
RecordsPaused(data, route) == route # NullRoute

\* DaedongMapApp.onLocationUpdate: if (data.isTracking && this.currentRoute)
Records(data, route) == data.isTracking /\ route # NullRoute

\* onTrackingStop keeping a route of a single point
FinalizesAny(route) == route # NullRoute /\ Len(route.points) > 0

\* DaedongMapApp.onTrackingStop: if (this.currentRoute && this.currentRoute.points.length > 1)
Finalizes(route) == route # NullRoute /\ Len(route.points) > 1

\* startTracking going on although a session is tracking
RefusesNever(tracking) == FALSE

\* GPSTracker.startTracking: if (this.isTracking) return false
Refuses(tracking) == tracking

\* _handleError stopping the session for every error of the sensor
FatalAlways(code) == TRUE

\* GPSTracker._handleError: if (error.code === 1) this.stopTracking()
Fatal(code) == code = PERMISSION_DENIED

\* GPSTracker.startTracking, then onStart -> DaedongMapApp.onTrackingStart,
\* in a behaviour of at most `max` sessions
Start(max) ==
    /\ ~Busy
    /\ isTracking \/ idSeq < max
    /\ IF Refuses(isTracking)
       THEN /\ ev' = [NoEvent EXCEPT !.op = "start", !.ok = FALSE]
            /\ UNCHANGED <<watchId, isTracking, isPaused, locationUpdateCount, currentRoute,
                           idSeq, inFlight, tally>>
       ELSE /\ watchId' = idSeq + 1
            /\ isTracking' = TRUE
            /\ isPaused' = FALSE
            /\ locationUpdateCount' = 0
            /\ idSeq' = idSeq + 1
            /\ currentRoute' = [id |-> idSeq + 1, points |-> <<>>, startTime |-> DateNow,
                                endTime |-> NoTime, distance |-> 0]
            /\ inFlight' = FALSE
            /\ tally' = NoTally
            /\ ev' = [NoEvent EXCEPT !.op = "start"]
    /\ UNCHANGED <<now, skew, localStorage, routes, stayAreas, totalDistance, lastPosition,
                   lastValidLocation, inThrottle, throttleDue, fixes, timeout, timers,
                   reqSeq, bursts, writesDone, lastReqAt, ops, last>>
    /\ UNCHANGED <<lastSaveTime, stats, simplifierVars>>

StartTracking == Start(MaxSessions)

\* GPSTracker.pauseTracking, then onPause -> DaedongMapApp.onTrackingPause
PauseTracking ==
    /\ ~Busy
    /\ isPaused' = IF isTracking THEN ~isPaused ELSE isPaused
    /\ ev' = [NoEvent EXCEPT !.op = "pause", !.ok = isTracking]
    /\ UNCHANGED <<now, skew, localStorage, routes, stayAreas, totalDistance, currentRoute,
                   lastPosition, watchId, isTracking, lastValidLocation,
                   locationUpdateCount, inThrottle, throttleDue, idSeq, fixes, inFlight,
                   tally, timeout, timers, reqSeq, bursts, writesDone, lastReqAt, ops, last>>
    /\ UNCHANGED <<lastSaveTime, stats, simplifierVars>>

\* the body of GPSTracker.stopTracking for a session that is tracking, with
\* onStop -> DaedongMapApp.onTrackingStop; the watch may have queued a
\* position callback before clearWatch
stopTracking ==
    /\ watchId' = 0
    /\ isTracking' = FALSE
    /\ isPaused' = FALSE
    /\ locationUpdateCount' = 0
    /\ lastValidLocation' = NullLocation
    /\ inFlight' = TRUE
    /\ tally' = NoTally
    /\ IF Finalizes(currentRoute)
       THEN LET finished == [currentRoute EXCEPT !.endTime = DateNow]
            IN  /\ routes' = Append(routes, finished)
                /\ SaveRequest(routes', stayAreas, totalDistance)
       ELSE UNCHANGED <<routes, timeout, timers, reqSeq, bursts, lastReqAt>>
    /\ currentRoute' = NullRoute
    /\ lastPosition' = NullPosition

\* GPSTracker.stopTracking, then onStop -> DaedongMapApp.onTrackingStop
StopTracking ==
    /\ ~Busy
    /\ isTracking
    /\ stopTracking
    /\ ev' = [NoEvent EXCEPT !.op = "stop"]
    /\ UNCHANGED <<now, skew, localStorage, stayAreas, totalDistance, inThrottle, throttleDue,
                   idSeq, fixes, writesDone, ops, last>>
    /\ UNCHANGED <<lastSaveTime, stats, simplifierVars>>

\* the watch delivers the position `coords`: the throttled onLocationUpdate,
\* then _onLocationUpdate and, for a fix it accepts, DaedongMapApp.onLocationUpdate,
\* which ends with saveData() for every fix (everyFix) or, in the second
\* app.js, for a fix more than SaveEvery after the last one it saved
Deliver(coords, max, everyFix) ==
    /\ ~Busy
    /\ watchId # 0 \/ inFlight
    /\ fixes < max
    /\ fixes' = fixes + 1
    /\ inFlight' = FALSE
    /\ IF inThrottle
       THEN /\ ev' = [NoEvent EXCEPT !.op = "fix", !.ok = FALSE, !.reason = "throttled",
                                     !.accuracy = coords.accuracy]
            /\ UNCHANGED <<routes, stayAreas, totalDistance, currentRoute, lastPosition,
                           lastValidLocation, locationUpdateCount, inThrottle,
                           throttleDue, tally, timeout, timers, reqSeq, bursts, lastReqAt,
                           lastSaveTime, stats>>
       ELSE
         LET prior == ~lastValidLocation.isNull
             seen == [NoEvent EXCEPT
                         !.op = "fix", !.accuracy = coords.accuracy, !.prior = prior,
                         !.elapsed = IF prior THEN DateNow - lastValidLocation.timestamp
                                     ELSE 0,
                         !.distance = IF prior
                                      THEN calculateDistance(lastValidLocation.lat,
                                               lastValidLocation.lng, coords.lat, coords.lng)
                                      ELSE 0,
                         !.processed = tally.processed, !.accepted = tally.accepted]
         IN
         /\ inThrottle' = TRUE
         /\ throttleDue' = now + limit
         /\ locationUpdateCount' = locationUpdateCount + 1
         /\ IF coords.accuracy > accuracyThreshold(locationUpdateCount + 1)
            THEN /\ ev' = [seen EXCEPT !.ok = FALSE, !.reason = "LOW_ACCURACY",
                                       !.notices = 1]
                 /\ tally' = [tally EXCEPT !.processed = @ + 1]
                 /\ UNCHANGED <<routes, stayAreas, totalDistance, currentRoute,
                                lastPosition, lastValidLocation, timeout, timers, reqSeq,
                                bursts, lastReqAt, lastSaveTime, stats>>
            ELSE IF prior /\ TooFast(lastValidLocation, coords, DateNow)
            THEN /\ ev' = [seen EXCEPT !.ok = FALSE, !.reason = "speed"]
                 /\ tally' = [tally EXCEPT !.processed = @ + 1]
                 /\ UNCHANGED <<routes, stayAreas, totalDistance, currentRoute,
                                lastPosition, lastValidLocation, timeout, timers, reqSeq,
                                bursts, lastReqAt, lastSaveTime, stats>>
            ELSE
              LET data == [isNull |-> FALSE, lat |-> coords.lat, lng |-> coords.lng,
                           accuracy |-> coords.accuracy, timestamp |-> DateNow,
                           isTracking |-> isTracking /\ ~isPaused]
                  point == [lat |-> data.lat, lng |-> data.lng,
                            timestamp |-> data.timestamp, accuracy |-> data.accuracy]
                  distance == DistanceFrom(lastPosition, data)
              IN  /\ lastValidLocation' = data
                  /\ tally' = [processed |-> tally.processed + 1,
                               accepted |-> tally.accepted + 1]
                  /\ IF Records(data, currentRoute)
                     THEN /\ currentRoute' =
                                [currentRoute EXCEPT
                                    !.points = Append(@, point),
                                    !.distance = @ + distance]
                          /\ totalDistance' = totalDistance + distance
                          /\ lastPosition' =
                                [isNull |-> FALSE, lat |-> data.lat, lng |-> data.lng]
                          /\ stayAreas' = checkStayArea(stayAreas, data.lat, data.lng,
                                                         data.timestamp)
                          /\ ev' = [seen EXCEPT
                                       !.draws = DrawCalls(stayAreas, data.lat, data.lng,
                                                           data.timestamp)]
                          /\ IF everyFix
                             THEN /\ SaveRequest(routes, stayAreas', totalDistance')
                                  /\ UNCHANGED lastSaveTime
                             ELSE IF lastSaveTime = NoTime \/ DateNow - lastSaveTime > SaveEvery
                             THEN /\ SaveRequest(routes, stayAreas', totalDistance')
                                  /\ lastSaveTime' = DateNow
                             ELSE /\ timers' = Shared(timers, routes, stayAreas')
                                  /\ UNCHANGED <<timeout, reqSeq, bursts, lastReqAt,
                                                 lastSaveTime>>
                          /\ UNCHANGED routes
                          /\ stats' = updateStats(stats, totalDistance + distance,
                                                  [currentRoute EXCEPT
                                                      !.distance = @ + distance],
                                                  DateNow)
                     ELSE /\ ev' = seen
                          /\ stats' = updateStats(stats, totalDistance, currentRoute,
                                                  DateNow)
                          /\ UNCHANGED <<routes, stayAreas, totalDistance, currentRoute,
                                         lastPosition, timeout, timers, reqSeq, bursts,
                                         lastReqAt, lastSaveTime>>
    /\ UNCHANGED <<now, skew, localStorage, watchId, isTracking, isPaused, idSeq,
                   writesDone, ops, last>>
    /\ UNCHANGED simplifierVars

OnLocationUpdate == \E coords \in Positions : Deliver(coords, MaxFixes, TRUE)

\* the codes of a GeolocationPositionError, and 0 for one _onLocationError has no message for
ErrorCodes == {0, 1, 2, 3}

\* the watch reports an error: _onLocationError -> _handleError -> onError,
\* and stopTracking when the permission is denied
SensorError ==
    \E code \in ErrorCodes :
        /\ ~Busy
        /\ watchId # 0
        /\ ev' = [NoEvent EXCEPT !.op = "error", !.code = code, !.notices = 1]
        /\ IF Fatal(code) /\ isTracking
           THEN stopTracking
           ELSE UNCHANGED <<watchId, isTracking, isPaused, locationUpdateCount,
                            lastValidLocation, inFlight, tally, routes, timeout, timers,
                            reqSeq, bursts, lastReqAt, currentRoute, lastPosition>>
        /\ UNCHANGED <<now, skew, localStorage, stayAreas, totalDistance, inThrottle,
                       throttleDue, idSeq, fixes, writesDone, ops, last>>
        /\ UNCHANGED <<lastSaveTime, stats, simplifierVars>>

\* the throttle's timer: () => inThrottle = false
ThrottleReset ==
    /\ ThrottleTimerDue
    /\ inThrottle' = FALSE
    /\ throttleDue' = NoTime
    /\ UNCHANGED <<now, skew, localStorage, routes, stayAreas, totalDistance, currentRoute,
                   lastPosition, watchId, isTracking, isPaused, lastValidLocation,
                   locationUpdateCount, idSeq, fixes, inFlight, tally, ev, timeout, timers,
                   reqSeq, bursts, writesDone, lastReqAt, ops, last>>
    /\ UNCHANGED <<lastSaveTime, stats, simplifierVars>>

\* the time of the walk, long stays apart
Walked == (now - T0) % STAY_THRESHOLD

\* time passes by d ticks, no timer being due before
Pass(d) ==
    /\ ~Busy
    /\ d > 0
    /\ \A x \in timers : now + d <= x.due
    /\ throttleDue # NoTime => now + d <= throttleDue
    /\ now' = now + d
    /\ ev' = NoEvent
    /\ UNCHANGED <<skew, localStorage, routes, stayAreas, totalDistance, currentRoute,
                   lastPosition, watchId, isTracking, isPaused, lastValidLocation,
                   locationUpdateCount, inThrottle, throttleDue, idSeq, fixes, inFlight,
                   tally, timeout, timers, reqSeq, bursts, writesDone, lastReqAt, ops, last>>
    /\ UNCHANGED <<lastSaveTime, stats, simplifierVars>>

\* time passes during a walk, up to the moment the next timer is due
WaitUpTo(max) ==
    \E d \in {limit} \cup {x.due - now : x \in timers} \cup {throttleDue - now} :
        /\ Walked + d <= max
        /\ Pass(d)

Wait == WaitUpTo(MaxTrackTicks)

\* a new page with nothing stored and nothing recorded
InitTrack ==
    /\ now = T0
    /\ skew = 0
    /\ localStorage = NoStore
    /\ routes = <<>>
    /\ stayAreas = <<>>
    /\ totalDistance = 0
    /\ NewPage
    /\ idSeq = 0
    /\ fixes = 0
    /\ timeout = 0
    /\ timers = {}
    /\ reqSeq = 0
    /\ bursts = 0
    /\ writesDone = 0
    /\ lastReqAt = NoTime
    /\ ops = 0
    /\ last = NoLast
    /\ SimplifierIdle

NextTrack ==
    \/ StartTracking
    \/ PauseTracking
    \/ StopTracking
    \/ OnLocationUpdate
    \/ ThrottleReset
    \/ TimerFire
    \/ Wait

SpecTrack == InitTrack /\ [][NextTrack]_vars

\* bounds of the behaviours of the accuracy gate
MaxFilterFixes == 5
MaxFilterTicks == 80

\* fixes at one place, of 10 m, 150 m and 250 m accuracy
FilterPositions == { Coords(0, 100), Coords(0, 1500), Coords(0, 2500) }

OnFilterUpdate == \E coords \in FilterPositions : Deliver(coords, MaxFilterFixes, TRUE)

WaitFilter == WaitUpTo(MaxFilterTicks)

NextFilter ==
    \/ StartTracking
    \/ OnFilterUpdate
    \/ ThrottleReset
    \/ TimerFire
    \/ WaitFilter

SpecFilter == InitTrack /\ [][NextFilter]_vars

\* the system clock is set back (a correction of the time by the user or the
\* network) by one or two throttle intervals, once
ClockBack == {limit, 2 * limit}

ClockStep ==
    \E d \in ClockBack :
        /\ ~Busy
        /\ skew = 0
        /\ skew' = 0 - d
        /\ UNCHANGED <<now, localStorage, routes, stayAreas, totalDistance, currentRoute,
                       lastPosition, watchId, isTracking, isPaused, lastValidLocation,
                       locationUpdateCount, inThrottle, throttleDue, idSeq, fixes, inFlight,
                       tally, ev, timeout, timers, reqSeq, bursts, writesDone, lastReqAt,
                       ops, last>>
        /\ UNCHANGED <<lastSaveTime, stats, simplifierVars>>

\* fixes where the session starts and 2 km to the north
ClockPositions == { Coords(0, 100), Coords(36000, 100) }

OnClockUpdate == \E coords \in ClockPositions : Deliver(coords, MaxFixes, TRUE)

NextClock ==
    \/ StartTracking
    \/ PauseTracking
    \/ OnClockUpdate
    \/ ClockStep
    \/ ThrottleReset
    \/ TimerFire
    \/ Wait

SpecClock == InitTrack /\ [][NextClock]_vars

\* fixes of a walk and one of 250 m accuracy
ErrorPositions == { Coords(0, 100), Coords(540, 80), Coords(0, 2500) }

OnErrorUpdate == \E coords \in ErrorPositions : Deliver(coords, MaxFixes, TRUE)

NextError ==
    \/ StartTracking
    \/ OnErrorUpdate
    \/ SensorError
    \/ ThrottleReset
    \/ TimerFire
    \/ Wait

SpecError == InitTrack /\ [][NextError]_vars

\* bounds of the behaviours of the stay areas
MaxStayFixes == 3
MaxStaySessions == 2
MaxStayTicks == 40
MaxLingers == 1
MaxReloads == 1

\* fixes at a place, 78 m to the north of it and, between the two, 30 m to
\* the north of it (48 m from the second)
StayPositions == { Coords(0, 100), Coords(1400, 100), Coords(540, 100) }

StartStay == Start(MaxStaySessions)

OnStayUpdate == \E coords \in StayPositions : Deliver(coords, MaxStayFixes, TRUE)

WaitStay == WaitUpTo(MaxStayTicks)

\* the device stays where it is for STAY_THRESHOLD, no timer pending
Linger ==
    /\ timers = {}
    /\ throttleDue = NoTime
    /\ (now - T0) \div STAY_THRESHOLD < MaxLingers
    /\ Pass(STAY_THRESHOLD)

\* the page is reloaded once the stay areas it holds have been committed
Revisit ==
    /\ ops < MaxReloads
    /\ timers = {}
    /\ throttleDue = NoTime
    /\ last.op = "commit" /\ last.ok /\ last.data.stayAreas = stayAreas
    /\ LoadSavedData

NextStay ==
    \/ StartStay
    \/ OnStayUpdate
    \/ ThrottleReset
    \/ TimerFire
    \/ WaitStay
    \/ Linger
    \/ Revisit

SpecStay == InitTrack /\ [][NextStay]_vars

----------------------------------------------------------------------------
\* The second app.js: a walk whose fixes are saved at most every SaveEvery,
\* with saves from the autosave interval in between, and the page left.

MaxAutoFixes == 2
MaxAutoTicks == 40
MaxUnloads == 1

AutoPositions == { Coords(0, 100), Coords(540, 80) }

OnAutoUpdate == \E coords \in AutoPositions : Deliver(coords, MaxAutoFixes, FALSE)

WaitAuto == WaitUpTo(MaxAutoTicks)

\* beforeunload: the listener of setupAutoSave calls saveData(), the handler
\* of setupEventListeners calls it again while tracking and asks whether to
\* leave; when the user leaves (asked or not) the page goes with its timers,
\* and the page opened next loads what is stored
Unload ==
    \E leaves \in BOOLEAN :
        /\ ~Busy
        /\ ops < MaxUnloads
        /\ ops' = ops + 1
        /\ leaves \/ isTracking
        /\ LET data == [routes |-> routes, stayAreas |-> stayAreas,
                        totalDistance |-> totalDistance]
               calls == IF isTracking THEN 2 ELSE 1
               first == executedFunction(timers, timeout,
                                         [req |-> reqSeq + 1, data |-> data, asked |-> data],
                                         now)
               set == IF isTracking
                      THEN executedFunction(first.timers, first.timeout,
                                            [req |-> reqSeq + 2, data |-> data,
                                             asked |-> data], now)
                      ELSE first
           IN  /\ reqSeq' = reqSeq + calls
               /\ IF leaves
                  THEN LET out == loadFromStorage(localStorage, "none")
                           savedData == out.result
                       IN  /\ localStorage' = out.store
                           /\ routes' = IF savedData.isNull THEN <<>> ELSE savedData.routes
                           /\ stayAreas' = IF savedData.isNull THEN <<>>
                                           ELSE savedData.stayAreas
                           /\ totalDistance' = IF savedData.isNull THEN 0
                                               ELSE savedData.totalDistance
                           /\ timeout' = 0
                           /\ timers' = {}
                           /\ bursts' = 0
                           /\ writesDone' = 0
                           /\ lastReqAt' = NoTime
                           /\ Reload
                           /\ stats' = updateStats(NoStats, totalDistance', NullRoute,
                                                   DateNow)
                           /\ last' = [Op("unload") EXCEPT !.req = reqSeq + calls,
                                                           !.latest = reqSeq + calls,
                                                           !.data = data,
                                                           !.quarantined =
                                                               IF out.store # localStorage
                                                               THEN localStorage.data ELSE @]
                  ELSE /\ timeout' = set.timeout
                       /\ timers' = set.timers
                       /\ bursts' = IF lastReqAt = NoTime \/ now - lastReqAt >= wait
                                    THEN bursts + 1 ELSE bursts
                       /\ lastReqAt' = now
                       /\ last' = [Op("request") EXCEPT !.req = reqSeq + calls,
                                                        !.latest = reqSeq + calls,
                                                        !.data = data]
                       /\ UNCHANGED <<localStorage, routes, stayAreas, totalDistance,
                                      writesDone, currentRoute, lastPosition, watchId,
                                      isTracking, isPaused, lastValidLocation,
                                      locationUpdateCount, inThrottle, throttleDue,
                                      inFlight, tally, ev, lastSaveTime, stats>>
        /\ UNCHANGED <<now, skew, idSeq, fixes>>
        /\ UNCHANGED simplifierVars

NextAuto ==
    \/ StartTracking
    \/ StopTracking
    \/ OnAutoUpdate
    \/ SaveData
    \/ ThrottleReset
    \/ TimerFire
    \/ WaitAuto
    \/ Unload

SpecAuto == InitTrack /\ [][NextAuto]_vars

----------------------------------------------------------------------------
\* _simplifyPath call by call, and _serializeData on one route.

\* bounds: the longest path drawn from the grid
MaxPathLen == 4

\* places a point of a path may be at: on a line, 15 units off it (within the
\* tolerance of 20), 50 units off it
Grid == { <<0, 0>>, <<40, 0>>, <<80, 0>>, <<40, 15>>, <<40, 50>> }

\* the point a route has recorded i-th, at the place g
PathPoint(g, i) == Pt(g[1], g[2], T0 + 20 * i, 80)

GridPaths ==
    UNION { { [i \in 1..n |-> PathPoint(g[i], i)] : g \in [1..n -> Grid] } : n \in 1..MaxPathLen }

\* a trail of n points a little over half a metre apart, with one corner (the
\* fifth point) and one point (the eighth) within the tolerance
Trail(n) ==
    [i \in 1..n |->
        Pt((i - 1) * 10, IF i = 5 THEN 31 ELSE IF i = 8 THEN 7 ELSE 0, T0 + 20 * i, 80)]

\* trails just under, at and over the length from which _compressPoints simplifies
Trails == { Trail(n) : n \in {CompressMin - 1, CompressMin, CompressMin + 1} }

\* the tolerances _simplifyPath is given
Tolerances == {0, tolerance}

\* a call of _simplifyPath(points, tolerance) that has just been made
Frame(points) == [points |-> points, stage |-> "call", maxIndex |-> 0, left |-> <<>>]

\* points.slice(0, maxIndex + 1), maxIndex being 1-based here
LeftSlice(points, maxIndex) == SubSeq(points, 1, maxIndex)

\* _simplifyPath recursing on all of its points for the right part
RightSliceWhole(points, maxIndex) == points

\* points.slice(maxIndex)
RightSlice(points, maxIndex) == SubSeq(points, maxIndex, Len(points))

\* _simplifyPath returning left.concat(right)
JoinWhole(left, right) == left \o right

\* left.slice(0, -1).concat(right)
Join(left, right) == SubSeq(left, 1, Len(left) - 1) \o right

\* what the simplifier leaves alone
pageVars == <<now, localStorage, routes, stayAreas, totalDistance, timeout, timers, reqSeq,
              bursts, writesDone, lastReqAt, ops, last, currentRoute, lastPosition, watchId,
              isTracking, isPaused, lastValidLocation, locationUpdateCount, inThrottle,
              throttleDue, idSeq, fixes, skew, inFlight, tally, ev, lastSaveTime, stats>>

\* the page calls _simplifyPath(path, pathTolerance)
SimplifyEnter ==
    /\ frames = <<>>
    /\ returned = NoResult
    /\ frames' = <<Frame(path)>>
    /\ UNCHANGED <<path, pathTolerance, returned, serialized>>
    /\ UNCHANGED pageVars

\* the call on top of the stack runs up to its first recursive call or its return
SimplifyCall ==
    /\ frames # <<>>
    /\ LET top == Len(frames)
           pts == frames[top].points
       IN  /\ frames[top].stage = "call"
           /\ IF Len(pts) <= 2
              THEN /\ frames' = SubSeq(frames, 1, top - 1)
                   /\ returned' = [isNull |-> FALSE, points |-> pts]
              ELSE LET far == FarthestUpTo(pts, Len(pts) - 1)
                       scale == LineScale(pts[1], pts[Len(pts)])
                   IN  IF far.maxDistance > pathTolerance * pathTolerance * scale
                       THEN /\ frames' =
                                  [frames EXCEPT ![top] = [@ EXCEPT !.stage = "left",
                                                                     !.maxIndex = far.maxIndex]]
                                      \o <<Frame(LeftSlice(pts, far.maxIndex))>>
                            /\ UNCHANGED returned
                       ELSE /\ frames' = SubSeq(frames, 1, top - 1)
                            /\ returned' = [isNull |-> FALSE,
                                            points |-> <<pts[1], pts[Len(pts)]>>]
    /\ UNCHANGED <<path, pathTolerance, serialized>>
    /\ UNCHANGED pageVars

\* the call for the left part has returned: the caller calls for the right part
SimplifyLeftReturned ==
    /\ frames # <<>>
    /\ LET top == Len(frames)
       IN  /\ frames[top].stage = "left"
           /\ frames' =
                 [frames EXCEPT ![top] = [@ EXCEPT !.stage = "right",
                                                    !.left = returned.points]]
                     \o <<Frame(RightSlice(frames[top].points, frames[top].maxIndex))>>
    /\ UNCHANGED <<path, pathTolerance, returned, serialized>>
    /\ UNCHANGED pageVars

\* the call for the right part has returned: the caller returns the two joined
SimplifyRightReturned ==
    /\ frames # <<>>
    /\ LET top == Len(frames)
       IN  /\ frames[top].stage = "right"
           /\ frames' = SubSeq(frames, 1, top - 1)
           /\ returned' = [isNull |-> FALSE,
                           points |-> Join(frames[top].left, returned.points)]
    /\ UNCHANGED <<path, pathTolerance, serialized>>
    /\ UNCHANGED pageVars

\* _serializeData maps the route that has the points of `path`
SerializePath ==
    /\ serialized = NullRoute
    /\ serialized' = SerializeRoute([id |-> 101, points |-> path, startTime |-> T0,
                                     endTime |-> T0 + 20 * (Len(path) + 1),
                                     distance |-> PathLength(path)])
    /\ UNCHANGED <<path, pathTolerance, frames, returned>>
    /\ UNCHANGED pageVars

\* a page with a route of the points `path` to simplify and to serialize
InitSimplify ==
    /\ now = T0
    /\ skew = 0
    /\ localStorage = NoStore
    /\ routes = <<>>
    /\ stayAreas = <<>>
    /\ totalDistance = 0
    /\ NewPage
    /\ idSeq = 0
    /\ fixes = 0
    /\ timeout = 0
    /\ timers = {}
    /\ reqSeq = 0
    /\ bursts = 0
    /\ writesDone = 0
    /\ lastReqAt = NoTime
    /\ ops = 0
    /\ last = NoLast
    /\ path \in GridPaths \cup Trails
    /\ pathTolerance \in Tolerances
    /\ frames = <<>>
    /\ returned = NoResult
    /\ serialized = NullRoute

NextSimplify ==
    \/ SimplifyEnter
    \/ SimplifyCall
    \/ SimplifyLeftReturned
    \/ SimplifyRightReturned
    \/ SerializePath

SpecSimplify == InitSimplify /\ [][NextSimplify]_vars

\* a step of the call of _simplifyPath
SimplifyStep ==
    \/ SimplifyEnter
    \/ SimplifyCall
    \/ SimplifyLeftReturned
    \/ SimplifyRightReturned

\* a call under way goes on: the engine runs the code to its end
FairSimplify == SpecSimplify /\ WF_vars(SimplifyStep)


----------------------------------------------------------------------------
\* Properties of the storage behaviours.

\* C1: a burst of saveToStorage calls, each less than the debounce window
\* after the one before, leads to exactly one _saveToStorage: every burst begun
\* on the page has been written once or has its one write pending; the pending
\* write carries the argument of the latest call and is due a full window after
\* it; and a write that ran was given the argument of the latest call and ran
\* no sooner than a window after that call.
DebounceCoalesces ==
    /\ writesDone + Cardinality(timers) = bursts
    /\ \A x \in timers : x.args.req = reqSeq /\ x.due = lastReqAt + wait
    /\ last.op = "commit" => last.req = last.latest /\ last.at >= lastReqAt + wait

\* a burst of two calls has been written once, with the argument of the second
DebounceCoalescesWitness ==
    /\ last.op = "commit"
    /\ last.req = 2
    /\ bursts = 1
    /\ writesDone = 1
    /\ timers = {}

\* the snapshot is over the quota once the routes older than 30 days are gone
StillOverQuota(data, t) ==
    JsonLength(_serializeData(_cleanupOldData(data, t), t)) > maxStorageSize

\* C2: a commit serializes at most twice and evicts at most once, and a
\* snapshot still over the quota after the eviction makes it fail without
\* writing the primary item.
QuotaRetryBounded ==
    last.op = "commit" =>
        /\ last.attempts <= 2
        /\ last.evictions <= 1
        /\ StillOverQuota(last.data, last.at) => ~last.ok /\ localStorage.data = last.pre.data

\* C3: a commit that did not write the snapshot raised a failure notification
\* (saveData gives its caller no result).
CommitFailureReported ==
    last.op = "commit" /\ ~last.ok => last.notified

\* JSON.parse rejects the text
Unparseable(blob) == blob.kind \in {"empty", "garbage"}

\* C4, as claimed: loading an unparseable primary item returns null and leaves
\* the item under the backup key and the primary key absent.
CorruptLoadQuarantined ==
    last.op = "load" /\ Unparseable(last.pre.data) =>
        /\ last.result.isNull
        /\ localStorage.backup = last.pre.data
        /\ localStorage.data = NoItem

\* C4, amended: loading an unparseable primary item returns null; a non-empty
\* item whose backup write succeeds ends under the backup key with the
\* primary key absent; an empty item, or one whose backup write throws, leaves
\* both keys as they were.
CorruptLoadContained ==
    last.op = "load" /\ Unparseable(last.pre.data) =>
        /\ last.result.isNull
        /\ IF last.pre.data.kind = "garbage" /\ last.backupFault = "none"
           THEN localStorage.backup = last.pre.data /\ localStorage.data = NoItem
           ELSE localStorage = last.pre

\* a truncated item has been quarantined by a load
CorruptLoadWitness ==
    /\ last.op = "load"
    /\ last.pre.data = Garbage(1)
    /\ last.result.isNull
    /\ localStorage.backup = Garbage(1)
    /\ localStorage.data = NoItem

\* the document is a JSON object without one of its required top-level fields
LacksField(blob) ==
    /\ blob.kind = "json"
    /\ blob.doc.top = "object"
    /\ \/ blob.doc.routesKind = "missing"
       \/ blob.doc.stayAreasKind = "missing"
       \/ blob.doc.totalDistanceKind = "missing"
       \/ blob.doc.version = ""

\* C5: loading a document that lacks a required field returns null
\* and moves the item to the backup key.
MissingFieldQuarantined ==
    last.op = "load" /\ LacksField(last.pre.data) =>
        /\ last.result.isNull
        /\ localStorage.backup = last.pre.data
        /\ localStorage.data = NoItem

\* the import document is no JSON, or lacks what the claim lists
InvalidImport(text) ==
    \/ text.kind # "json"
    \/ text.doc.top # "object"
    \/ text.doc.version = ""
    \/ text.doc.routesKind # "array"
    \/ text.doc.stayAreasKind # "array"
    \/ text.doc.totalDistanceKind # "number"

\* C6: an import of an invalid document fails and leaves the primary and the
\* backup item as they were.
InvalidImportMutatesNothing ==
    last.op = "import" /\ InvalidImport(last.text) =>
        /\ ~last.ok
        /\ localStorage = last.pre

\* a document whose routes are no array was refused while an item was stored
InvalidImportWitness ==
    /\ last.op = "import"
    /\ last.text = JsonText(RoutesNotArrayDoc)
    /\ ~last.ok
    /\ Truthy(last.pre.data)
    /\ localStorage = last.pre

\* C7: after a successful import over an existing primary item, the backup key
\* holds that item and the primary key the imported document.
ImportBacksUpFirst ==
    last.op = "import" /\ last.ok /\ last.pre.data # NoItem =>
        /\ localStorage.backup = last.pre.data
        /\ localStorage.data = last.text

\* C8: after a successful clear the primary key is absent and the backup key
\* holds the item that was stored, if one was.
ClearBacksUpFirst ==
    last.op = "clear" /\ last.ok =>
        /\ localStorage.data = NoItem
        /\ last.pre.data # NoItem => localStorage.backup = last.pre.data

\* a route as the round trip may change it: coordinates to 6 decimals,
\* accuracy and distance to whole metres
RoundedRoute(route) ==
    [id |-> route.id,
     points |-> [i \in 1..Len(route.points) |-> CompressPoint(route.points[i])],
     startTime |-> route.startTime, endTime |-> route.endTime,
     distance |-> Round(route.distance, LengthUnit)]

RoundedArea(area) ==
    [lat |-> Round(area.lat, CoordUnit), lng |-> Round(area.lng, CoordUnit),
     startTime |-> area.startTime, endTime |-> area.endTime,
     duration |-> area.duration, drawn |-> area.drawn]

\* C9: loading what a commit wrote gives the committed routes and areas, all
\* of them, in order, each with all its points and attributes (the promoted
\* flag too), up to the rounding.
RoundTrip ==
    last.op = "commit" /\ last.ok =>
        LET loaded == loadFromStorage(localStorage, "none").result
        IN  /\ ~loaded.isNull
            /\ loaded.routes =
                   [i \in 1..Len(last.data.routes) |-> RoundedRoute(last.data.routes[i])]
            /\ loaded.stayAreas =
                   [i \in 1..Len(last.data.stayAreas) |-> RoundedArea(last.data.stayAreas[i])]

\* the distance of the live trajectory is the length of the path over its points
DistanceIsPathLength ==
    currentRoute # NullRoute => currentRoute.distance = PathLength(currentRoute.points)

\* a step within one session does not make the distance smaller
DistanceNeverDecreases ==
    (currentRoute # NullRoute /\ currentRoute' # NullRoute /\ currentRoute'.id = currentRoute.id)
        => currentRoute'.distance >= currentRoute.distance

\* C10: while a tracking session is live, the distance of its trajectory is
\* the sum of the distances between its consecutive points, and no step of
\* the same session makes it smaller.
DistanceIntegral == []DistanceIsPathLength /\ [][DistanceNeverDecreases]_vars

\* a live session resumed after a pause, with three points and a distance
DistanceIntegralWitness ==
    /\ currentRoute # NullRoute
    /\ Len(currentRoute.points) >= 3
    /\ currentRoute.distance > 0
    /\ isTracking /\ ~isPaused
    /\ \E i \in 1..(Len(currentRoute.points) - 1) :
          currentRoute.points[i + 1].timestamp - currentRoute.points[i].timestamp > limit

\* the filter has just let the fix through or turned it down (the throttle did not drop it)
Filtered == ev.op = "fix" /\ ev.reason # "throttled"

\* C11, as claimed: a fix is rejected for low accuracy exactly when its
\* accuracy is over 200 m with fewer than 5 fixes accepted before it in the
\* session, or over 100 m with 5 or more.
AccuracyGateByAccepted ==
    Filtered =>
        (ev.reason = "LOW_ACCURACY"
            <=> ev.accuracy > (IF ev.accepted < 5 THEN 200 * LengthUnit ELSE 100 * LengthUnit))

\* C11, amended: a fix is rejected for low accuracy exactly when its accuracy
\* is over 200 m with fewer than 4 fixes processed (accepted or rejected)
\* before it since tracking last started or stopped, or over 100 m with 4 or more.
AccuracyGateByProcessed ==
    Filtered =>
        (ev.reason = "LOW_ACCURACY"
            <=> ev.accuracy > (IF ev.processed < 4 THEN 200 * LengthUnit ELSE 100 * LengthUnit))

\* a fix of 150 m is turned down as the fifth of a session that has accepted
\* fewer than five, one of 150 m among them
AccuracyGateWitness ==
    /\ Filtered
    /\ ev.accuracy = 150 * LengthUnit
    /\ ev.reason = "LOW_ACCURACY"
    /\ ev.processed = 4
    /\ ev.accepted \in 1..4
    /\ lastValidLocation.accuracy = 150 * LengthUnit

\* C14: every fix the filter rejects, for its accuracy or for its speed, is
\* notified once to the error callback.
RejectionsReported ==
    Filtered /\ ~ev.ok => ev.notices = 1

\* the speed implied by a distance (dm) over an elapsed time (ticks) is over
\* 55.6 m/s; over no time any distance is, and a negative speed is not
Implausible(distance, elapsed) ==
    IF elapsed > 0 THEN distance * LengthUnit > SpeedLimit * elapsed
    ELSE elapsed = 0 /\ distance > 0

\* no two consecutive points of the route imply a speed over 55.6 m/s
PlausibleRoute(route) ==
    \A i \in 1..(Len(route.points) - 1) :
        ~Implausible(calculateDistance(route.points[i].lat, route.points[i].lng,
                                       route.points[i + 1].lat, route.points[i + 1].lng),
                     route.points[i + 1].timestamp - route.points[i].timestamp)

\* C12: a fix accepted after another implies a speed of at most 55.6 m/s from
\* the one accepted before it, and so do every two consecutive points of the
\* live route and of the routes finalized.
SpeedBounded ==
    /\ Filtered /\ ev.ok /\ ev.prior => ~Implausible(ev.distance, ev.elapsed)
    /\ PlausibleRoute(currentRoute)
    /\ \A i \in 1..Len(routes) : PlausibleRoute(routes[i])

\* C13: a fix that comes no later, by the clock, than the fix accepted before
\* it is rejected, whatever the distance between the two.
NonPositiveElapsedRejected ==
    Filtered /\ ev.prior /\ ev.elapsed <= 0 => ~ev.ok

\* C15: when a session is stopped, the live route is appended to routes, with
\* its endTime set, if and only if it has at least 2 points; with fewer the
\* routes are left as they are. A route added by a stop so has at least 2
\* points and an endTime.
ShortTrajectoriesDiscarded ==
    [][isTracking /\ ~isTracking' =>
          IF Len(currentRoute.points) >= 2
          THEN /\ Len(routes') = Len(routes) + 1
               /\ SubSeq(routes', 1, Len(routes)) = routes
               /\ LET added == routes'[Len(routes')]
                  IN  /\ added.id = currentRoute.id
                      /\ added.points = currentRoute.points
                      /\ added.distance = currentRoute.distance
                      /\ Len(added.points) >= 2
                      /\ added.endTime # NoTime
          ELSE routes' = routes]_vars

\* a session that has recorded a point (there is a stay area) has been
\* stopped and no route has been kept
ShortTrajectoryWitness ==
    /\ ev.op = "stop"
    /\ Len(stayAreas) = 1
    /\ routes = <<>>
    /\ currentRoute = NullRoute

\* C16: startTracking called while a session is tracking fails, subscribes to
\* no second watch, does not run the start callback and leaves the live route
\* (id, points, distance, startTime) and the paused flag as they are.
StartFailsWhileLive ==
    [][isTracking /\ ev'.op = "start" =>
          /\ ~ev'.ok
          /\ UNCHANGED <<watchId, isTracking, isPaused, currentRoute, idSeq,
                         locationUpdateCount>>]_vars

\* a start has been refused in a paused session whose route has a point
StartFailsWitness ==
    /\ ev.op = "start"
    /\ ~ev.ok
    /\ isTracking
    /\ isPaused
    /\ Len(currentRoute.points) > 0

\* C17: when stopTracking returns the watch is cleared and the live route
\* finalized or discarded; a fix delivered after it, one that was under way
\* included, adds no point to a route, no distance and no stay area, and
\* extends no stay area.
StopIsFinal ==
    [][/\ isTracking /\ ev'.op = "stop" =>
              watchId' = 0 /\ ~isTracking' /\ currentRoute' = NullRoute
       /\ ~isTracking /\ fixes' = fixes + 1 =>
              UNCHANGED <<routes, currentRoute, totalDistance, stayAreas>>]_vars

\* a fix that was under way when the session was stopped has gone through the
\* filter after the stop, the route of the session being finalized
StopIsFinalWitness ==
    /\ Filtered
    /\ ev.ok
    /\ ~isTracking
    /\ watchId = 0
    /\ Len(routes) = 1
    /\ currentRoute = NullRoute

\* the stop handling has run on the live route: the route is kept if it has at
\* least 2 points, dropped if not, and there is no live route any more
StopHandled ==
    /\ currentRoute' = NullRoute
    /\ IF Len(currentRoute.points) >= 2
       THEN /\ Len(routes') = Len(routes) + 1
            /\ routes'[Len(routes')].points = currentRoute.points
            /\ routes'[Len(routes')].endTime # NoTime
       ELSE routes' = routes

\* the session and its live route are as they were
SessionKept == UNCHANGED <<isTracking, isPaused, watchId, currentRoute, routes>>

\* C18: an error of the sensor with the code PERMISSION_DENIED, in a session
\* that is tracking, stops the session and the stop handling runs; an error of
\* another code (unavailable, timeout, unknown) and a fix of low accuracy are
\* notified to the error callback and leave the session tracking, its live
\* route unchanged.
SensorErrorPolicy ==
    [][isTracking =>
          /\ ev'.op = "error" /\ ev'.code = PERMISSION_DENIED =>
                 ~isTracking' /\ watchId' = 0 /\ StopHandled
          /\ ev'.op = "error" /\ ev'.code # PERMISSION_DENIED =>
                 ev'.notices = 1 /\ SessionKept
          /\ ev'.op = "fix" /\ ev'.reason = "LOW_ACCURACY" =>
                 ev'.notices = 1 /\ SessionKept]_vars

\* the permission has been denied in a session with a route of two points,
\* which is now among the routes
SensorErrorWitness ==
    /\ ev.op = "error"
    /\ ev.code = PERMISSION_DENIED
    /\ ~isTracking
    /\ Len(routes) = 1
    /\ Len(routes[1].points) = 2

\* a step in which a fix is accepted in a session that is tracking and not paused
Observed == fixes' = fixes + 1 /\ ev'.ok /\ isTracking /\ ~isPaused

\* the stay areas whose centre is within 50 m of the fix
Within50m(fix) ==
    {i \in 1..Len(stayAreas) :
        calculateDistance(stayAreas[i].lat, stayAreas[i].lng, fix.lat, fix.lng)
            <= 50 * LengthUnit}

\* C19: a fix accepted while tracking either extends exactly one stay area or
\* adds exactly one; the area extended is the newest one whose centre is
\* within 50 m of the fix, even when an older one is nearer, its endTime
\* becomes the timestamp of the fix and its duration endTime - startTime; an
\* area is added (centre = the fix, startTime = endTime = its timestamp,
\* duration 0, not drawn) only when no centre is within 50 m; no fix changes
\* the centre of an area.
FirstMatchNewestFirst ==
    [][/\ Observed =>
            LET fix == lastValidLocation'
                near == Within50m(fix)
            IN  IF near = {}
                THEN stayAreas' =
                        Append(stayAreas,
                               [lat |-> fix.lat, lng |-> fix.lng,
                                startTime |-> fix.timestamp, endTime |-> fix.timestamp,
                                duration |-> 0, drawn |-> FALSE])
                ELSE LET newest == CHOOSE m \in near : \A j \in near : j <= m
                     IN  /\ Len(stayAreas') = Len(stayAreas)
                         /\ \A i \in 1..Len(stayAreas) :
                               i # newest => stayAreas'[i] = stayAreas[i]
                         /\ stayAreas'[newest].startTime = stayAreas[newest].startTime
                         /\ stayAreas'[newest].endTime = fix.timestamp
                         /\ stayAreas'[newest].duration =
                               fix.timestamp - stayAreas[newest].startTime
       /\ fixes' = fixes + 1 =>
            /\ Len(stayAreas') >= Len(stayAreas)
            /\ \A i \in 1..Len(stayAreas) :
                  /\ stayAreas'[i].lat = stayAreas[i].lat
                  /\ stayAreas'[i].lng = stayAreas[i].lng]_vars

\* a fix 30 m from the first area and 48 m from the second has extended the
\* second and left the first as it was
FirstMatchWitness ==
    /\ Filtered /\ ev.ok /\ isTracking
    /\ Len(stayAreas) = 2
    /\ lastValidLocation.lat = BaseLat + 540
    /\ stayAreas[1].lat = BaseLat
    /\ stayAreas[2].lat = BaseLat + 1400
    /\ stayAreas[2].endTime = lastValidLocation.timestamp
    /\ stayAreas[2].duration > 0
    /\ stayAreas[1].duration = 0

\* C20: with timestamps that never decrease, the duration of a stay area never
\* decreases, and its drawn flag goes from false to true exactly once, at the
\* first fix at which its duration is at least STAY_THRESHOLD, with exactly
\* one call of drawStayArea for it; the flag never goes back to false and no
\* area is drawn while its duration is below the threshold.
PromotedExactlyOnce ==
    [][/\ \A i \in 1..Len(stayAreas) :
             /\ i <= Len(stayAreas')
             /\ stayAreas'[i].duration >= stayAreas[i].duration
             /\ stayAreas[i].drawn => stayAreas'[i].drawn
             /\ ~stayAreas[i].drawn /\ stayAreas'[i].drawn =>
                    /\ stayAreas[i].duration < STAY_THRESHOLD
                    /\ stayAreas'[i].duration >= STAY_THRESHOLD
                    /\ fixes' = fixes + 1
                    /\ ev'.draws = 1
       /\ \A i \in 1..Len(stayAreas') :
             stayAreas'[i].drawn <=> stayAreas'[i].duration >= STAY_THRESHOLD
       /\ fixes' = fixes + 1 =>
             ev'.draws = Cardinality({i \in 1..Len(stayAreas) :
                                         ~stayAreas[i].drawn /\ stayAreas'[i].drawn})]_vars

----------------------------------------------------------------------------
\* Properties of the simplifier.

\* a is b with some of its elements left out, the others in their order
RECURSIVE IsSubsequence(_, _)
IsSubsequence(a, b) ==
    IF a = <<>> THEN TRUE
    ELSE IF b = <<>> THEN FALSE
    ELSE IF Head(a) = Head(b) THEN IsSubsequence(Tail(a), Tail(b))
    ELSE IsSubsequence(a, Tail(b))

\* the call _simplifyPath(path, pathTolerance) has returned
Simplified == frames = <<>> /\ ~returned.isNull

\* C21: for a path of one point or more and a tolerance of 0 or more,
\* _simplifyPath returns points of the path in their order, one at least and
\* no more than the path has, the first and the last point of the path being
\* the first and the last returned; a path of 1 or 2 points is returned as it is.
SimplifierShape ==
    Simplified =>
        /\ returned.points # <<>>
        /\ IsSubsequence(returned.points, path)
        /\ Len(returned.points) <= Len(path)
        /\ returned.points[1] = path[1]
        /\ returned.points[Len(returned.points)] = path[Len(path)]
        /\ Len(path) <= 2 => returned.points = path

\* a trail of 11 points has been simplified to fewer points, a corner among them
SimplifierShapeWitness ==
    /\ Simplified
    /\ Len(path) = CompressMin + 1
    /\ Len(returned.points) > 2
    /\ Len(returned.points) < Len(path)

\* C22: _serializeData simplifies the points of a route only if the route has
\* 10 points or more; a route of fewer than 10 points is serialized with all
\* its points, in their order.
SimplificationThreshold ==
    serialized # NullRoute /\ Len(path) < 10 =>
        /\ Len(serialized.points) = Len(path)
        /\ \A i \in 1..Len(path) : serialized.points[i] = CompressPoint(path[i])

\* a trail of 9 points, some of which a simplification would drop, has been
\* serialized with its 9 points
SimplificationThresholdWitness ==
    /\ serialized # NullRoute
    /\ Len(path) = 9
    /\ Len(_simplifyPath(path, tolerance)) < 9
    /\ Len(serialized.points) = 9

\* every call under way is on fewer points than its caller, and there are no
\* more calls under way than the path has points
CallsShorten ==
    /\ \A i \in 2..Len(frames) : Len(frames[i].points) < Len(frames[i - 1].points)
    /\ Len(frames) <= Len(path)

\* C23: _simplifyPath terminates on every path; each of its recursive calls
\* is on a strictly shorter sequence than its caller's, and the depth of the
\* recursion is at most the length of the path.
SimplifierTerminates ==
    /\ []CallsShorten
    /\ (frames # <<>>) ~> Simplified

\* the recursion is three calls deep
SimplifierTerminatesWitness ==
    /\ Len(frames) = 3
    /\ frames[3].stage = "call"
    /\ Len(frames[3].points) >= 2

----------------------------------------------------------------------------
\* Properties of the eviction, the backup item and the read-only methods.

\* the snapshot with the routes that started more than 30 days before t gone
WithoutOlder(data, t) ==
    [data EXCEPT !.routes = SelectSeq(data.routes,
                                      LAMBDA route : route.startTime >= t - ThirtyDays)]

OverQuota(data, t) == JsonLength(_serializeData(data, t)) > maxStorageSize

\* the routes and the areas of the primary item
WrittenRoutes == localStorage.data.doc.routes
WrittenAreas == localStorage.data.doc.stayAreas

QuarantineKept ==
    [][last.quarantined # NoItem /\ localStorage.backup = last.quarantined
            => localStorage'.backup = last.quarantined]_vars

\* C26: exportData and getStorageStatus leave the primary item, the backup
\* item and the snapshot they are given (routes, points, stay areas, total
\* distance) as they were.
ReadOnlyMethods ==
    [][last'.op \in {"export", "status"} /\ ops' = ops + 1 =>
            UNCHANGED <<localStorage, routes, stayAreas, totalDistance>>]_vars

\* an export has succeeded on a page holding a route older than 30 days, with
\* both items stored
ReadOnlyWitness ==
    /\ last.op = "export"
    /\ last.ok
    /\ Truthy(localStorage.data)
    /\ Truthy(localStorage.backup)
    /\ Len(routes) = 3
    /\ routes[1].startTime < last.at - ThirtyDays
    /\ last.data.routes = routes

\* C27: a commit requested before a clear or a successful import does not
\* write the primary item once that operation has completed: the item stays
\* absent after the clear, and equal to the imported document after the
\* import, until a commit is requested anew.
PendingCommitSuperseded ==
    [][/\ last.op \in {"clear", "import"}
       /\ last.ok
       /\ last'.op = "commit"
       /\ last'.req <= last.latest
       => localStorage'.data = localStorage.data]_vars

\* C29: the primary item is never longer than maxStorageSize.
QuotaCeiling == ItemLength(localStorage.data) <= maxStorageSize

\* C28: when the page is left, the commit requested last, the request of the
\* unload handler included, has been written to the primary item.
FlushOnShutdown ==
    last.op = "unload" => localStorage.data = JsonText(_serializeData(last.data, last.at))

\* C30: a debounced commit writes the routes, the stay areas and the total
\* distance as they were at the call of saveData that set its timer.
CommitIsSnapshot ==
    [][\A x \in timers :
            x.due <= now /\ last'.op = "commit" /\ writesDone' = writesDone + 1
                => last'.data = x.args.asked]_vars

----------------------------------------------------------------------------
\* The sessions of the second app.js with its "clear all data" button.

\* bounds of the sessions in which everything is cleared
MaxClears == 1
MaxClearFixes == 2
MaxClearTicks == 20

ClearAllAuto == ClearAll(FALSE, MaxClears)

OnSessionUpdate == \E coords \in AutoPositions : Deliver(coords, MaxClearFixes, FALSE)

WaitSession == WaitUpTo(MaxClearTicks)

\* GPSTracker.pauseTracking, then onPause -> onTrackingPause of the second
\* app.js, which calls saveData() when the session has just been paused
PauseAuto ==
    /\ ~Busy
    /\ reqSeq < MaxRequests
    /\ isPaused' = IF isTracking THEN ~isPaused ELSE isPaused
    /\ ev' = [NoEvent EXCEPT !.op = "pause", !.ok = isTracking]
    /\ IF isTracking /\ ~isPaused
       THEN SaveRequest(routes, stayAreas, totalDistance)
       ELSE UNCHANGED <<timeout, timers, reqSeq, bursts, lastReqAt>>
    /\ UNCHANGED <<now, skew, localStorage, routes, stayAreas, totalDistance, currentRoute,
                   lastPosition, watchId, isTracking, lastValidLocation,
                   locationUpdateCount, inThrottle, throttleDue, idSeq, fixes, inFlight,
                   tally, writesDone, ops, last>>
    /\ UNCHANGED <<lastSaveTime, stats, simplifierVars>>

NextSession ==
    \/ StartTracking
    \/ PauseAuto
    \/ StopTracking
    \/ OnSessionUpdate
    \/ ClearAllAuto
    \/ ThrottleReset
    \/ TimerFire
    \/ WaitSession

SpecSession == InitTrack /\ [][NextSession]_vars

----------------------------------------------------------------------------
\* The sessions of the first app.js with its "clear all routes" button.

ClearTracks == ClearAll(TRUE, MaxClears)

OnClearUpdate == \E coords \in AutoPositions : Deliver(coords, MaxClearFixes, TRUE)

\* visibilitychange to a shown page: updateStats()
ShowPage ==
    /\ ~Busy
    /\ stats' = updateStats(stats, totalDistance, currentRoute, DateNow)
    /\ ev' = [NoEvent EXCEPT !.op = "show"]
    /\ UNCHANGED <<now, skew, localStorage, routes, stayAreas, totalDistance, currentRoute,
                   lastPosition, watchId, isTracking, isPaused, lastValidLocation,
                   locationUpdateCount, inThrottle, throttleDue, idSeq, fixes, inFlight,
                   tally, timeout, timers, reqSeq, bursts, writesDone, lastReqAt, ops, last>>
    /\ UNCHANGED <<lastSaveTime, simplifierVars>>

NextClear ==
    \/ StartTracking
    \/ PauseTracking
    \/ StopTracking
    \/ OnClearUpdate
    \/ ClearTracks
    \/ ShowPage
    \/ ThrottleReset
    \/ TimerFire
    \/ WaitSession

SpecClear == InitTrack /\ [][NextClear]_vars

----------------------------------------------------------------------------
\* Properties of the session, the recording and the stay areas.

\* the tracker tracks exactly when the application holds a live route, and
\* pauses only while tracking
SessionConsistent ==
    /\ isTracking <=> currentRoute # NullRoute
    /\ isPaused => isTracking

\* C31: the tracker is tracking if and only if currentRoute is not null, and
\* paused only if tracking; so every fix accepted while tracking and not
\* paused is appended to the live route.
SessionState ==
    /\ []SessionConsistent
    /\ [][Observed => Len(currentRoute'.points) = Len(currentRoute.points) + 1]_vars

\* the distances of the finalized routes and of the live route, summed
RecordedDistance ==
    SumSeq([i \in 1..Len(routes) |-> routes[i].distance]) + LiveDistance(currentRoute)

TotalDistanceSum == totalDistance = RecordedDistance

\* an accepted fix has just been handled, and updateStats has run
DistanceShownOnce == ev.op = "fix" /\ ev.ok => stats.shown = RecordedDistance

\* C38: totalDistance equals the sum of the distances of all finalized routes
\* plus the distance of the live route, and the distance updateStats reports
\* equals that sum, the live route's distance counted once.
TotalDistanceConsistent ==
    /\ TotalDistanceSum
    /\ DistanceShownOnce

\* a load directly follows an import that succeeded
LoadsImported == last.op = "import" /\ last.ok /\ last'.op = "load"

\* C32: a load that directly follows a successful import returns a snapshot,
\* does not quarantine the imported blob, and leaves the backup key holding
\* the blob the primary key held before the import.
ImportedLoads ==
    [][LoadsImported =>
          /\ ~last'.result.isNull
          /\ localStorage'.data = last.text
          /\ Truthy(last.pre.data) => localStorage'.backup = last.pre.data]_vars

\* C33: a stay area that was promoted before a commit is still promoted after
\* the snapshot is loaded again: a later fix within its radius makes no second
\* drawStayArea call for it.
PromotionSurvivesReload ==
    [][fixes' = fixes + 1 =>
          \A i \in 1..Len(stayAreas) :
              stayAreas[i].duration >= STAY_THRESHOLD =>
                  ~(~stayAreas[i].drawn /\ stayAreas'[i].drawn)]_vars

\* the place in `path` of the k-th point returned (the points of a path have
\* each their timestamp)
KeptAt(k) == CHOOSE i \in 1..Len(path) : path[i] = returned.points[k]

\* the point path[j] is within the tolerance of the segment from path[a] to path[b]
WithinTolerance(j, a, b) ==
    _pointToLineDistance(path[j], path[a], path[b])
        <= pathTolerance * pathTolerance * LineScale(path[a], path[b])

\* C34: every point that _simplifyPath drops lies within the tolerance (planar
\* distance over latitude and longitude, measured to the segment) of the
\* segment of the output that joins the two retained points between which the
\* dropped point lay in the input.
ToleranceBound ==
    Simplified =>
        \A k \in 1..(Len(returned.points) - 1) :
            \A j \in (KeptAt(k) + 1)..(KeptAt(k + 1) - 1) :
                WithinTolerance(j, KeptAt(k), KeptAt(k + 1))

\* a path has been simplified to more than its two ends, a point that is off
\* the segment of its retained neighbours, within the tolerance, being dropped
ToleranceBoundWitness ==
    /\ Simplified
    /\ pathTolerance = tolerance
    /\ Len(returned.points) > 2
    /\ \E k \in 1..(Len(returned.points) - 1) :
          \E j \in (KeptAt(k) + 1)..(KeptAt(k + 1) - 1) :
              _pointToLineDistance(path[j], path[KeptAt(k)], path[KeptAt(k + 1)]) > 0

\* a fix is accepted while the session is paused
ObservedPaused == fixes' = fixes + 1 /\ ev'.ok /\ isTracking /\ isPaused

\* the last point the live route has stored
LastStored == currentRoute.points[Len(currentRoute.points)]

\* C35: while a session is paused, accepted fixes leave the live route's
\* points and distance, the total distance and all stay areas unchanged; a fix
\* accepted when the session is not paused (the first after a resume among
\* them) is appended, and the distance added is the great-circle distance
\* from the last point stored before to that fix.
PauseFreezes ==
    [][/\ ObservedPaused => UNCHANGED <<currentRoute, totalDistance, stayAreas, routes>>
       /\ Observed /\ currentRoute # NullRoute /\ currentRoute.points # <<>> =>
             LET fix == lastValidLocation'
                 leg == calculateDistance(LastStored.lat, LastStored.lng, fix.lat, fix.lng)
             IN  /\ Len(currentRoute'.points) = Len(currentRoute.points) + 1
                 /\ currentRoute'.points[Len(currentRoute'.points)].lat = fix.lat
                 /\ currentRoute'.points[Len(currentRoute'.points)].lng = fix.lng
                 /\ currentRoute'.distance = currentRoute.distance + leg
                 /\ totalDistance' = totalDistance + leg]_vars

\* the second point of the live route has just been stored, after a resume:
\* between its two points a fix was accepted elsewhere and not stored
PauseFreezesWitness ==
    /\ isTracking /\ ~isPaused
    /\ ev.op = "fix" /\ ev.ok
    /\ currentRoute # NullRoute
    /\ Len(currentRoute.points) = 2
    /\ tally.accepted = 3
    /\ ev.elapsed < currentRoute.points[2].timestamp - currentRoute.points[1].timestamp
    /\ currentRoute.distance > 0
    /\ ev.distance # currentRoute.distance

\* C36: starting from no stay area, after any sequence of observed fixes the
\* centres of any two distinct stay areas are more than STAY_RADIUS (50 m) apart.
AreasApart ==
    \A i, j \in 1..Len(stayAreas) :
        i # j => calculateDistance(stayAreas[i].lat, stayAreas[i].lng,
                                   stayAreas[j].lat, stayAreas[j].lng) > STAY_RADIUS

\* there are two stay areas, and a fix has been observed at a place already
\* visited after the other area was added
AreasApartWitness ==
    /\ Len(stayAreas) = 2
    /\ stayAreas[1].endTime > stayAreas[2].startTime

\* C37: a commit, one that evicts old routes and one that simplifies routes
\* of 10 points or more included, leaves the application's list of routes,
\* the points of every route, the stay areas and the total distance unchanged.
CommitLeavesApp ==
    [][writesDone' = writesDone + 1 =>
          /\ routes' = routes
          /\ stayAreas' = stayAreas
          /\ totalDistance' = totalDistance
          /\ currentRoute' = currentRoute]_vars

\* a commit has evicted the oldest of the three routes the application goes
\* on holding
CommitLeavesAppWitness ==
    /\ last.op = "commit"
    /\ last.ok
    /\ last.evictions = 1
    /\ Len(routes) = 3
    /\ routes = last.data.routes
    /\ Len(WrittenRoutes) = 2

\* a commit has written fewer points than the route of the application has
CommitSimplifiedWitness ==
    /\ last.op = "commit"
    /\ last.ok
    /\ Len(routes) = 1
    /\ Len(routes[1].points) = 10
    /\ Len(WrittenRoutes) = 1
    /\ Len(WrittenRoutes[1].points) < 10

\* the points recorded while tracking that the application holds
RecordedPoints ==
    {currentRoute.points[k] : k \in 1..Len(currentRoute.points)}
        \cup UNION {{routes[r].points[k] : k \in 1..Len(routes[r].points)} :
                        r \in 1..Len(routes)}

\* C39: a stay area is promoted only if the subject remained within
\* STAY_RADIUS of its centre from its startTime to its endTime: no fix accepted
\* while tracking between the two lay farther than 50 m from the centre.
PromotedMeansStayed ==
    \A i \in 1..Len(stayAreas) :
        stayAreas[i].drawn =>
            \A p \in RecordedPoints :
                stayAreas[i].startTime <= p.timestamp /\ p.timestamp <= stayAreas[i].endTime =>
                    calculateDistance(stayAreas[i].lat, stayAreas[i].lng, p.lat, p.lng)
                        <= STAY_RADIUS

=============================================================================
